---- MODULE Spec2Model ----
(***************************************************************************)
(* Apiary: the roster of Pods kept by App (src/tui/app.rs), the discovery  *)
(* engine (src/pod/discovery.rs), the Pod store (src/store/mod.rs) and the *)
(* tmux server the application observes.                                   *)
(*                                                                         *)
(* A pane id "%n" is the integer n.  Time is counted in whole seconds, the *)
(* unit of working_secs.                 *)
(***************************************************************************)
EXTENDS Integers, Sequences, FiniteSets, TLC

\* ------------------------------------------------------------------ bounds
MaxTime == 2
MaxPanes == 2
MaxPods == 3
MaxNameLen == 10
\* How many create / adopt / drop / forget commands the operator issues.
MaxCommands == 2

None == "<none>"
\* Option::None of a number (an index, an Instant).
Never == 0 - 1

\* Names the operator types at the prompt: create <name>, adopt --name <n>.
CreateNames == {"a"}
AdoptNames == {None, "a/w"}
PodNames == CreateNames \cup {"a/w"}
\* Groups the operator passes with --group.
GroupArgs == {None, "a/w"}
\* create <name> --group <name> makes the Pod the root of its own group.
RootGroups == {"a"}
\* What a new pane shows: a plain shell or an assistant that prints "@w".
PaneKinds == {"shell", "@w"}
\* What one capture_pane call yields: the class detect_member_status gives
\* the captured text, or Err when the capture fails.
CaptureClasses == {"Working", "Idle", "Permission", "Err"}
\* A text in which only a permission pattern of the user's configuration
\* matches: Working for detect_member_status, Permission with the configuration.
ConfigPermission == "ConfigPermission"
\* The classes of the captures that succeed on a pane that works and rests.
WorkClasses == {"Working", "Idle"}
\* The same, and the capture that fails.
RosterClasses == WorkClasses \cup {"Err"}
\* A pane that rests or asks for a permission.
PermissionClasses == {"Idle", "Permission"}
\* The events one drained batch ends with.
HookEvents ==
    {[event |-> "tool_start", session |-> None],
     [event |-> "stop", session |-> None]}

VARIABLES
    pods,               \* App.state.pods
    store,              \* content of pods.json
    focus,              \* App.state.focus (None or a 0-based index)
    last_store_reload,  \* App.last_store_reload
    now,                \* the clock
    sessions,           \* tmux: names of the live sessions
    panes,              \* tmux: the live panes, [id, session, kind]
    nextPane,           \* tmux: the next pane id the server hands out
    commands,           \* how many commands the operator has issued
    previous_permission_pods,   \* App.state.previous_permission_pods
    current_permission,         \* App.state.current_permission
    notified,           \* the Pods the last refresh_pod_states sent a notification for
    arg_parent,         \* create_child_pods: *parent
    arg_discovered,     \* create_child_pods: the candidates
    ret_children,       \* create_child_pods: the Pods it returned
    hooks_file,         \* /tmp/apiary-hooks.jsonl
    last_position,      \* HooksReceiver.last_position
    events,             \* what the last poll_events returned
    delivered,          \* the timestamps of the events poll_events has returned
    disk,               \* the directory: the inode behind pods.json and pods.json.tmp
    inodes,             \* the content of every inode
    inst,               \* the instances of the application sharing the store path
    load_result,             \* what the last PodStore::load read and returned
    saved,              \* the initial content and every serialization handed to save
    saves,              \* the number of save calls
    mode,               \* App.state.mode
    selected_member,    \* App.state.selected_member
    detail_pty_stream,  \* App.detail_pty_stream: None or the pane it pipes
    detail_original_window_size,    \* App.state.detail_original_window_size
    windows,            \* tmux: the windows that were resized, [session, size]
    pipes,              \* tmux: the panes a pipe-pane was started for
    files,              \* /tmp/apiary-pty-<pane>.raw: the panes a file exists for
    arg_output,         \* detect_member_status: output, a line at a time
    arg_statuses,       \* rollup_status: statuses
    ret_status,         \* what the detector returned
    stream_file,        \* /tmp/apiary-pty-<pane>.raw, a byte at a time
    stream_reader,      \* DetailPtyStream.file and the drain call in progress
    parser              \* DetailPtyStream.parser: the bytes it has processed

\* What the permission edge detection of refresh_pod_states keeps and emits.
notif == <<previous_permission_pods, notified, current_permission>>

\* One call of create_child_pods.
callVars == <<arg_parent, arg_discovered, ret_children>>

\* The Detail view and what it holds in tmux and in /tmp.
detail == <<mode, selected_member, detail_pty_stream, detail_original_window_size,
            windows, pipes, files>>

\* The application and the tmux server it observes.
main == <<pods, store, focus, last_store_reload, now, sessions, panes, nextPane,
          commands, notif, detail>>

\* The hook log and its reader.
hookVars == <<hooks_file, last_position, events, delivered>>

\* The store file at the grain of its system calls.
storeVars == <<disk, inodes, inst, load_result, saved, saves>>

\* One call of a function of pod/detector.rs.
detectorVars == <<arg_output, arg_statuses, ret_status>>

\* What the handlers of the application do not touch.
\* One detail stream at the grain of its reads.
streamVars == <<stream_file, stream_reader, parser>>

others == <<callVars, hookVars, storeVars, detectorVars, streamVars>>

vars == <<main, others>>

\* ------------------------------------------------------------- tmux facade
session_exists(name) == name \in sessions

RECURSIVE SortedIds(_)
SortedIds(S) ==
    IF S = {} THEN <<>>
    ELSE LET m == CHOOSE x \in S : \A y \in S : x <= y
         IN <<m>> \o SortedIds(S \ {m})

PaneIdsOf(session) == {p.id : p \in {q \in panes : q.session = session}}

\* list_panes fails when the session is gone.
list_panes_ok(session) == session \in sessions
list_panes(session) == SortedIds(PaneIdsOf(session))

PaneKind(id) == (CHOOSE p \in panes : p.id = id).kind
PaneAlive(id) == \E p \in panes : p.id = id

\* capture_pane: cap is what the captures of this handler run yield.
capture_pane(cap, id) ==
    IF PaneAlive(id) THEN cap[id] ELSE "Err"

\* detect_member_status_with_config on a captured text: the built-in
\* patterns and those of config.detection.
detect_member_status_with_config(output) ==
    IF output = ConfigPermission THEN "Permission" ELSE output

\* member.last_output = output: the text is kept by what it holds for
\* parse_permission_request, a request ("request") or none ("plain"; the
\* empty text of a new member is one).
TextOf(output) == IF output = "Permission" THEN "request" ELSE "plain"

\* parse_permission_request looks for PERMISSION_PATTERNS alone.
parse_permission_request(text) == IF text = "request" THEN "request" ELSE None

\* ------------------------------------------------------------ pod/mod.rs
\* Dead is the lowest status of the priority order.
DeadPriority == 0 - 1

Priority(s) ==
    CASE s = "Permission" -> 4
      [] s = "Error" -> 3
      [] s = "Working" -> 2
      [] s = "Idle" -> 1
      [] s = "Done" -> 0
      [] OTHER -> DeadPriority

RECURSIVE MaxPriority(_)
MaxPriority(ms) ==
    IF Len(ms) = 1 THEN Priority(ms[1].status)
    ELSE LET r == MaxPriority(Tail(ms))
             h == Priority(ms[1].status)
         IN IF h >= r THEN h ELSE r

LowestArm(max_priority) == IF max_priority = 0 THEN "Done" ELSE "Dead"

rollup_status(pod) ==
    IF Len(pod.members) = 0 THEN [pod EXCEPT !.status = "Idle"]
    ELSE LET max_priority == MaxPriority(pod.members)
         IN [pod EXCEPT !.status =
                CASE max_priority = 4 -> "Permission"
                  [] max_priority = 3 -> "Error"
                  [] max_priority = 2 -> "Working"
                  [] max_priority = 1 -> "Idle"
                  [] OTHER -> LowestArm(max_priority)]

RECURSIVE SumWorking(_)
SumWorking(ms) ==
    IF Len(ms) = 0 THEN 0 ELSE ms[1].working_secs + SumWorking(Tail(ms))

total_working_time(pod) == SumWorking(pod.members) + pod.total_working_secs

NewMember(role, status, pane) ==
    [role |-> role, status |-> status, tmux_pane |-> pane,
     last_change |-> now, last_polled |-> Never,
     working_secs |-> 0, sub_agents |-> <<>>, last_output |-> "plain"]

\* ------------------------------------------------------------ store/mod.rs
\* serde skips last_polled: a loaded member has never been polled.
Persisted(pod) ==
    [pod EXCEPT !.members =
        [i \in 1..Len(pod.members) |-> [pod.members[i] EXCEPT !.last_polled = Never]]]

save(roster) == [i \in 1..Len(roster) |-> Persisted(roster[i])]

\* ------------------------------------------------- tui/app.rs, Detail view
\* crossterm::terminal::size() and the size tmux gives a detached window.
TerminalSize == <<200, 50>>
DefaultWindowSize == <<80, 24>>

saturating_sub(a, b) == IF a > b THEN a - b ELSE 0

\* The area of the Detail view: 35% of the columns less the border, the rows
\* less header and footer; (80, 24) when that is empty.
DetailArea ==
    LET w == saturating_sub((TerminalSize[1] * 35) \div 100, 2)
        h == saturating_sub(TerminalSize[2], 4)
    IN IF w > 0 /\ h > 0 THEN <<w, h>> ELSE <<80, 24>>

SessionOfPane(id) == (CHOOSE p \in panes : p.id = id).session

\* Tmux::get_window_size of the window of a live pane.
get_window_size(ws, session) ==
    IF \E w \in ws : w.session = session
    THEN (CHOOSE w \in ws : w.session = session).size
    ELSE DefaultWindowSize

\* Tmux::resize_window: fails, and is ignored, when the pane is gone.
resize_window(ws, pane_id, size) ==
    IF PaneAlive(pane_id)
    THEN {w \in ws : w.session # SessionOfPane(pane_id)}
            \cup {[session |-> SessionOfPane(pane_id), size |-> size]}
    ELSE ws

\* focused_pod().map(|p| p.status == Dead).unwrap_or(true)
FocusedPodDead(roster, f) ==
    IF f = Never \/ f >= Len(roster) THEN TRUE ELSE roster[f + 1].status = "Dead"

\* App::restore_detail_window_size, App::stop_detail_pty_stream and
\* DetailPtyStream::stop.
restore_detail_window_size ==
    /\ detail_pty_stream' = Never
    /\ pipes' = IF detail_pty_stream # Never THEN pipes \ {detail_pty_stream} ELSE pipes
    /\ files' = IF detail_pty_stream # Never THEN files \ {detail_pty_stream} ELSE files
    /\ windows' = IF detail_original_window_size # <<>>
                  THEN resize_window(windows, detail_original_window_size[1],
                                     detail_original_window_size[2])
                  ELSE windows
    /\ detail_original_window_size' = <<>>

\* The three lines every way out of the Detail view runs.
LeaveDetail ==
    /\ restore_detail_window_size
    /\ mode' = "Home"
    /\ selected_member' = Never

\* App::start_detail_pty_stream and DetailPtyStream::start.
start_detail_pty_stream ==
    LET selected == 0
        pod == pods[focus + 1]
    IN IF Len(pod.members) <= selected
       THEN UNCHANGED <<detail_pty_stream, detail_original_window_size, windows,
                        pipes, files>>
       ELSE LET pane_id == pod.members[selected + 1].tmux_pane
            IN /\ detail_original_window_size' =
                     IF detail_original_window_size = <<>> /\ PaneAlive(pane_id)
                     THEN <<pane_id, get_window_size(windows, SessionOfPane(pane_id))>>
                     ELSE detail_original_window_size
               /\ files' = files \cup {pane_id}
               /\ IF PaneAlive(pane_id)
                  THEN /\ pipes' = pipes \cup {pane_id}
                       /\ windows' = resize_window(windows, pane_id, DetailArea)
                       /\ detail_pty_stream' = pane_id
                  ELSE UNCHANGED <<pipes, windows, detail_pty_stream>>

\* handle_home_keys, Enter or i.
HomeEnter ==
    /\ mode = "Home"
    /\ IF focus = Never \/ focus >= Len(pods)
       THEN UNCHANGED detail
       ELSE IF pods[focus + 1].status = "Permission"
            THEN /\ mode' = "Permission"
                 /\ selected_member' = 0
                 /\ UNCHANGED <<detail_pty_stream, detail_original_window_size,
                                windows, pipes, files>>
            ELSE /\ mode' = "Detail"
                 /\ selected_member' = 0
                 /\ start_detail_pty_stream
    /\ UNCHANGED <<pods, store, focus, last_store_reload, now, sessions, panes,
                   nextPane, commands, notif, others>>

DetailKeys == {"Esc", "Char"}

\* handle_detail_keys: every key but Esc goes to the pane.
handle_detail_keys(key) ==
    /\ mode = "Detail"
    /\ IF key = "Esc" \/ FocusedPodDead(pods, focus)
       THEN LeaveDetail
       ELSE UNCHANGED detail
    /\ UNCHANGED <<pods, store, focus, last_store_reload, now, sessions, panes,
                   nextPane, commands, notif, others>>

PermissionKeys == {"Esc", "a", "d", "s"}

HasPermissionMember(roster, f) ==
    /\ f # Never
    /\ f < Len(roster)
    /\ \E i \in 1..Len(roster[f + 1].members) :
          roster[f + 1].members[i].status = "Permission"

\* handle_permission_keys: approve and deny need a member to answer.
handle_permission_keys(key) ==
    /\ mode = "Permission"
    /\ mode' = IF key \in {"a", "d"} /\ ~HasPermissionMember(pods, focus)
               THEN "Permission"
               ELSE "Detail"
    /\ current_permission' = IF key \in {"a", "d"} /\ HasPermissionMember(pods, focus)
                             THEN None
                             ELSE current_permission
    /\ UNCHANGED <<selected_member, detail_pty_stream, detail_original_window_size,
                   windows, pipes, files>>
    /\ UNCHANGED <<pods, store, focus, last_store_reload, now, sessions, panes,
                   nextPane, commands, previous_permission_pods, notified, others>>

\* ------------------------------------------------------- pod/discovery.rs
is_claude_code_pane(kind) == kind # "shell"

detect_role_name(kind, fallback_index) ==
    IF kind = "@w" THEN "w" ELSE "member-" \o ToString(fallback_index)

RECURSIVE MemberPanes(_)
MemberPanes(ms) ==
    IF Len(ms) = 0 THEN {} ELSE {ms[1].tmux_pane} \cup MemberPanes(Tail(ms))

\* The panes owned by any Pod of all_pods that shares the session.
KnownPanes(session, all_pods) ==
    UNION {MemberPanes(all_pods[i].members) :
             i \in {j \in 1..Len(all_pods) : all_pods[j].tmux_session = session}}

RECURSIVE DiscoverLoop(_, _, _, _, _)
DiscoverLoop(pl, known_panes, n_members, cap, new_members) ==
    IF Len(pl) = 0 THEN new_members
    ELSE LET id == Head(pl) IN
         IF \/ id \in known_panes
            \/ capture_pane(cap, id) = "Err"
            \/ ~is_claude_code_pane(PaneKind(id))
         THEN DiscoverLoop(Tail(pl), known_panes, n_members, cap, new_members)
         ELSE DiscoverLoop(Tail(pl), known_panes, n_members, cap,
                  Append(new_members,
                         [NewMember(detect_role_name(PaneKind(id),
                                                     Len(new_members) + n_members),
                                    "Working", id)
                            EXCEPT !.last_output = TextOf(capture_pane(cap, id))]))

\* A discovery that knows only the panes of the Pod it looks at.
discover_own_panes_only(pod, all_pods, cap) ==
    IF ~list_panes_ok(pod.tmux_session) THEN <<>>
    ELSE DiscoverLoop(list_panes(pod.tmux_session),
                      MemberPanes(pod.members),
                      Len(pod.members), cap, <<>>)

discover_new_members(pod, all_pods, cap) ==
    IF ~list_panes_ok(pod.tmux_session) THEN <<>>
    ELSE DiscoverLoop(list_panes(pod.tmux_session),
                      KnownPanes(pod.tmux_session, all_pods),
                      Len(pod.members), cap, <<>>)

\* A parent whose group is set to its name even when it had one.
ParentAfterChildrenOverwriting(parent, discovered) ==
    IF Len(discovered) = 0 THEN parent
    ELSE [parent EXCEPT !.group = parent.name]

\* create_child_pods: what it leaves in *parent ...
ParentAfterChildren(parent, discovered) ==
    IF Len(discovered) = 0 THEN parent
    ELSE IF parent.group = None THEN [parent EXCEPT !.group = parent.name]
    ELSE parent

\* Children that always take the parent's name as their group.
create_child_pods_named_group(parent, discovered) ==
    [i \in 1..Len(discovered) |->
        [name |-> parent.name \o "/" \o discovered[i].role,
         pod_type |-> "Solo",
         tmux_session |-> parent.tmux_session,
         project |-> parent.project,
         group |-> parent.name,
         status |-> "Idle",
         members |-> <<discovered[i]>>,
         total_working_secs |-> 0]]

\* ... and what it returns.
create_child_pods(parent, discovered) ==
    LET group_name == IF parent.group = None THEN parent.name ELSE parent.group
    IN [i \in 1..Len(discovered) |->
          [name |-> parent.name \o "/" \o discovered[i].role,
           pod_type |-> "Solo",
           tmux_session |-> parent.tmux_session,
           project |-> parent.project,
           group |-> group_name,
           status |-> "Idle",
           members |-> <<discovered[i]>>,
           total_working_secs |-> 0]]

ParentNames(roster) ==
    {roster[i].name : i \in {j \in 1..Len(roster) : roster[j].group = roster[j].name}}

OrphanKeeps(pod, parent_names) ==
    \/ Len(pod.members) # 0
    \/ pod.group = None
    \/ pod.name = pod.group
    \/ pod.name \in parent_names

remove_orphan_child_pods(roster) ==
    LET parent_names == ParentNames(roster)
    IN SelectSeq(roster, LAMBDA pod : OrphanKeeps(pod, parent_names))

remove_stale_members(pod) ==
    IF ~list_panes_ok(pod.tmux_session) THEN pod
    ELSE LET active_pane_ids == PaneIdsOf(pod.tmux_session)
         IN [pod EXCEPT !.members =
                SelectSeq(@, LAMBDA m : m.tmux_pane \in active_pane_ids)]

\* ------------------------------------------------------------ tui/app.rs
CurrentProject == "proj"

HasPod(roster, name) == \E i \in 1..Len(roster) : roster[i].name = name
Position(roster, name) ==
    CHOOSE i \in 1..Len(roster) :
        /\ roster[i].name = name
        /\ \A j \in 1..(i - 1) : roster[j].name # name
RemoveAt(roster, idx) ==
    [i \in 1..(Len(roster) - 1) |-> IF i < idx THEN roster[i] ELSE roster[i + 1]]

\* The focus adjustment after Pods were removed.
ClampFocus(f, roster) ==
    IF f # Never /\ f >= Len(roster)
    THEN (IF Len(roster) = 0 THEN Never ELSE Len(roster) - 1)
    ELSE f

Bounded(roster) ==
    /\ Len(roster) <= MaxPods
    /\ \A i \in 1..Len(roster) : Len(roster[i].name) <= MaxNameLen

Command == commands < MaxCommands /\ commands' = commands + 1

\* create_pod without its check of the name.
create_pod_unchecked(name, group) ==
    /\ Command
    /\ ~session_exists(name)          \* new_session fails on a taken name
    /\ nextPane < MaxPanes
    /\ LET pane_id == nextPane
           member == NewMember("claude", "Idle", pane_id)
           pod == [name |-> name, pod_type |-> "Solo", members |-> <<member>>,
                   status |-> "Idle", tmux_session |-> name,
                   project |-> CurrentProject,
                   group |-> IF group # None THEN group ELSE CurrentProject,
                   total_working_secs |-> 0]
       IN /\ sessions' = sessions \cup {name}
          /\ panes' = panes \cup {[id |-> pane_id, session |-> name, kind |-> "claude"]}
          /\ nextPane' = nextPane + 1
          /\ pods' = Append(pods, pod)
          /\ Bounded(pods')
          /\ store' = save(pods')
    /\ UNCHANGED <<focus, last_store_reload, now, notif, detail, others>>

create_pod(name, group) ==
    /\ Command
    /\ ~HasPod(pods, name)
    /\ ~session_exists(name)          \* new_session fails on a taken name
    /\ nextPane < MaxPanes
    /\ LET pane_id == nextPane
           member == NewMember("claude", "Idle", pane_id)
           pod == [name |-> name, pod_type |-> "Solo", members |-> <<member>>,
                   status |-> "Idle", tmux_session |-> name,
                   project |-> CurrentProject,
                   group |-> IF group # None THEN group ELSE CurrentProject,
                   total_working_secs |-> 0]
       IN /\ sessions' = sessions \cup {name}
          /\ panes' = panes \cup {[id |-> pane_id, session |-> name, kind |-> "claude"]}
          /\ nextPane' = nextPane + 1
          /\ pods' = Append(pods, pod)
          /\ Bounded(pods')
          /\ store' = save(pods')
    /\ UNCHANGED <<focus, last_store_reload, now, notif, detail, others>>

adopt_session(session, name, group) ==
    /\ Command
    /\ session_exists(session)
    /\ LET pod_name == IF name # None THEN name ELSE session
           pl == list_panes(session)
           members == [i \in 1..Len(pl) |->
                         NewMember(IF i = 1 THEN "lead"
                                   ELSE "member-" \o ToString(i - 1),
                                   "Idle", pl[i])]
           pod == [name |-> pod_name,
                   pod_type |-> IF Len(members) > 1 THEN "Team" ELSE "Solo",
                   members |-> members, status |-> "Idle",
                   tmux_session |-> session, project |-> None,
                   group |-> group, total_working_secs |-> 0]
       IN /\ ~HasPod(pods, pod_name)
          /\ pods' = Append(pods, pod)
          /\ Bounded(pods')
          /\ store' = save(pods')
    /\ UNCHANGED <<focus, last_store_reload, now, sessions, panes, nextPane, notif, detail, others>>

\* tmux closes a session with its last pane.
AfterKill(killed) ==
    LET left == {p \in panes : p.id \notin killed}
    IN <<{s \in sessions : \E p \in left : p.session = s}, left>>

drop_pod(name) ==
    /\ Command
    /\ HasPod(pods, name)
    /\ LET idx == Position(pods, name)
           pod == pods[idx]
           session == pod.tmux_session
           pane_ids == MemberPanes(pod.members)
           shared == \E i \in 1..Len(pods) :
                        pods[i].name # name /\ pods[i].tmux_session = session
           tm == IF shared THEN AfterKill(pane_ids)
                 ELSE <<sessions \ {session}, {p \in panes : p.session # session}>>
       IN /\ sessions' = tm[1]
          /\ panes' = tm[2]
          /\ pods' = RemoveAt(pods, idx)
          /\ store' = save(pods')
          /\ focus' = ClampFocus(focus, pods')
    /\ UNCHANGED <<last_store_reload, now, nextPane, notif, detail, others>>

forget_pod(name) ==
    /\ Command
    /\ HasPod(pods, name)
    /\ pods' = RemoveAt(pods, Position(pods, name))
    /\ store' = save(pods')
    /\ focus' = ClampFocus(focus, pods')
    /\ UNCHANGED <<last_store_reload, now, sessions, panes, nextPane, notif, detail, others>>

\* A status change: leaving Working credits the seconds since last_change.
Elapsed(member) == IF now >= member.last_change THEN now - member.last_change ELSE 0

\* A status change that overwrites the counter instead of adding to it.
SetStatusOverwriting(member, new_status) ==
    IF new_status # member.status
    THEN [member EXCEPT
            !.working_secs = IF member.status = "Working" THEN Elapsed(member) ELSE @,
            !.status = new_status,
            !.last_change = now]
    ELSE member

SetStatus(member, new_status) ==
    IF new_status # member.status
    THEN [member EXCEPT
            !.working_secs = IF member.status = "Working" THEN @ + Elapsed(member) ELSE @,
            !.status = new_status,
            !.last_change = now]
    ELSE member

\* The session is gone: the Pod and its members become Dead.
MarkDead(pod) ==
    IF pod.status # "Dead"
    THEN [pod EXCEPT !.status = "Dead",
                     !.members = [i \in 1..Len(pod.members) |->
                                    [pod.members[i] EXCEPT !.status = "Dead"]]]
    ELSE pod

\* A session that is back, and members left as they are.
ReviveSkipped(pod) == pod

\* The session is back: Dead members return to Idle.
Revive(pod) ==
    IF pod.status = "Dead"
    THEN [pod EXCEPT !.members =
            [i \in 1..Len(pod.members) |->
               IF pod.members[i].status = "Dead"
               THEN [pod.members[i] EXCEPT !.status = "Idle", !.last_change = now]
               ELSE pod.members[i]]]
    ELSE pod

\* The captured texts are told apart by their class alone: none of them shows
\* the lines of running sub-agents.
parse_sub_agents(output) == <<>>

\* A failed capture taken for a change of the member.
DetectMemberTouchingOnFailure(member, cap) ==
    IF capture_pane(cap, member.tmux_pane) # "Err"
    THEN LET output == capture_pane(cap, member.tmux_pane)
         IN [SetStatus(member, detect_member_status_with_config(output)) EXCEPT
                !.sub_agents = parse_sub_agents(output),
                !.last_output = TextOf(output)]
    ELSE [member EXCEPT !.last_change = now, !.sub_agents = <<>>]

\* refresh_pod_states: classify every member that can be captured.
DetectMember(member, cap) ==
    IF capture_pane(cap, member.tmux_pane) # "Err"
    THEN LET output == capture_pane(cap, member.tmux_pane)
         IN [SetStatus(member, detect_member_status_with_config(output)) EXCEPT
                !.sub_agents = parse_sub_agents(output),
                !.last_output = TextOf(output)]
    ELSE member

RECURSIVE RefreshLoop(_, _, _, _)
RefreshLoop(ps, new_pods, idx, cap) ==
    IF idx > Len(ps) THEN <<ps, new_pods>>
    ELSE IF ~session_exists(ps[idx].tmux_session)
    THEN RefreshLoop([ps EXCEPT ![idx] = MarkDead(ps[idx])], new_pods, idx + 1, cap)
    ELSE LET stale == remove_stale_members(Revive(ps[idx]))
             ps1 == [ps EXCEPT ![idx] = stale]
             discovered == discover_new_members(stale, ps1 \o new_pods, cap)
             parent == ParentAfterChildren(stale, discovered)
             children == create_child_pods(stale, discovered)
             polled == [parent EXCEPT !.members =
                          [i \in 1..Len(parent.members) |->
                             DetectMember(parent.members[i], cap)]]
         IN RefreshLoop([ps EXCEPT ![idx] = rollup_status(polled)],
                        new_pods \o children, idx + 1, cap)

\* The roster refresh_pod_states hands to the orphan cleanup.
RefreshedRoster(cap) ==
    LET r == RefreshLoop(pods, <<>>, 1, cap) IN r[1] \o r[2]

\* config.notification.enabled, as Config::default sets it.
notification_enabled == TRUE

\* The names of the Pods whose status is Permission.
PermissionPods(roster) ==
    {roster[i].name : i \in {j \in 1..Len(roster) : roster[j].status = "Permission"}}

\* The Pods notify() is called for: in Permission now, not in the recorded set.
\* A notification for every Pod in Permission, whatever was recorded.
NotifyEveryRefresh(current_perm_pods, previous) ==
    IF notification_enabled THEN current_perm_pods ELSE {}

Notify(current_perm_pods, previous) ==
    IF notification_enabled THEN current_perm_pods \ previous ELSE {}

\* The loop over the members in Permission: the first whose last_output
\* parses as a request sets current_permission, none clears it.
FirstPermissionRequest(roster) ==
    IF \E i \in 1..Len(roster) : \E k \in 1..Len(roster[i].members) :
          /\ roster[i].members[k].status = "Permission"
          /\ parse_permission_request(roster[i].members[k].last_output) # None
    THEN "request"
    ELSE None

refresh_pod_states(cap) ==
    /\ LET extended == RefreshedRoster(cap)
       IN /\ pods' = remove_orphan_child_pods(extended)
          /\ Bounded(extended)
          /\ store' = IF Len(extended) # Len(pods) THEN save(extended) ELSE store
    /\ current_permission' = FirstPermissionRequest(pods')
    /\ notified' = Notify(PermissionPods(pods'), previous_permission_pods)
    /\ previous_permission_pods' = PermissionPods(pods')
    /\ UNCHANGED <<focus, last_store_reload, now, sessions, panes, nextPane, commands,
                   detail, others>>

\* ------------------------------------------------------------- hooks.rs
inferred_status(event) ==
    CASE event.event = "tool_start" -> "Working"
      [] event.event = "tool_end" -> "Working"
      [] event.event \in {"subagent_start", "subagent_stop"} -> "Working"
      [] event.event = "permission" -> "Permission"
      [] event.event = "error" -> "Error"
      [] OTHER -> None

\* ------------------------------------------- App::selective_refresh
HookMatches(pod, target_session) ==
    IF target_session # None
    THEN pod.tmux_session = target_session \/ pod.name = target_session
    ELSE TRUE

\* The status of the last drained event, applied to the matching Pods.
ApplyHooks(ps, hook_events) ==
    IF Len(hook_events) = 0 THEN ps
    ELSE LET last_event == hook_events[Len(hook_events)]
             hook_status == inferred_status(last_event)
         IN IF hook_status = None THEN ps
            ELSE [p \in 1..Len(ps) |->
                   IF HookMatches(ps[p], last_event.session)
                   THEN [ps[p] EXCEPT !.members =
                           [i \in 1..Len(ps[p].members) |->
                              [SetStatus(ps[p].members[i], hook_status)
                                 EXCEPT !.last_polled = Never]]]
                   ELSE ps[p]]

\* HookEvent::is_subagent_event
is_subagent_event(event) == event.event \in {"subagent_start", "subagent_stop"}

HasAgent(member, agent_id) ==
    \E k \in 1..Len(member.sub_agents) : member.sub_agents[k].description = agent_id

\* subagent_start that pushes its record whatever the member holds.
ApplySubagentAlwaysPushing(member, event) ==
    LET agent_type == IF event.agent_type # None THEN event.agent_type ELSE "Task"
        agent_id == IF event.agent_id # None THEN event.agent_id ELSE ""
    IN IF event.event = "subagent_start"
       THEN [member EXCEPT !.sub_agents =
               Append(@, [agent_type |-> agent_type, description |-> agent_id])]
       ELSE [member EXCEPT !.sub_agents =
               SelectSeq(@, LAMBDA a : a.description # agent_id)]

\* One sub-agent event on one member of a matching Pod.
ApplySubagent(member, event) ==
    LET agent_type == IF event.agent_type # None THEN event.agent_type ELSE "Task"
        agent_id == IF event.agent_id # None THEN event.agent_id ELSE ""
    IN IF event.event = "subagent_start"
       THEN (IF HasAgent(member, agent_id) THEN member
             ELSE [member EXCEPT !.sub_agents =
                     Append(@, [agent_type |-> agent_type, description |-> agent_id])])
       ELSE [member EXCEPT !.sub_agents =
               SelectSeq(@, LAMBDA a : a.description # agent_id)]

\* The sub-agent events of the batch, one after the other.
RECURSIVE ApplySubagents(_, _)
ApplySubagents(ps, hook_events) ==
    IF Len(hook_events) = 0 THEN ps
    ELSE LET event == Head(hook_events)
             next == IF ~is_subagent_event(event) THEN ps
                     ELSE [p \in 1..Len(ps) |->
                             IF HookMatches(ps[p], event.session)
                             THEN [ps[p] EXCEPT !.members =
                                     [i \in 1..Len(ps[p].members) |->
                                        ApplySubagent(ps[p].members[i], event)]]
                             ELSE ps[p]]
         IN ApplySubagents(next, Tail(hook_events))

ReloadInterval == 2

RECURSIVE MergeStored(_, _)
MergeStored(ps, stored_pods) ==
    IF Len(stored_pods) = 0 THEN ps
    ELSE MergeStored(IF HasPod(ps, stored_pods[1].name) THEN ps
                     ELSE Append(ps, stored_pods[1]),
                     Tail(stored_pods))

\* Step 1 of the dynamic reload: merge pods.json, drop what it lost.
ReloadStore(ps, stored_pods) ==
    LET merged == MergeStored(ps, stored_pods)
    IN IF Len(stored_pods) # 0 \/ Len(merged) = 0
       THEN SelectSeq(merged, LAMBDA p : HasPod(stored_pods, p.name))
       ELSE merged

ReloadFocus(f, roster) ==
    LET clamped == ClampFocus(f, roster)
    IN IF clamped = Never /\ Len(roster) # 0 THEN 0 ELSE clamped

\* Step 2 of the dynamic reload: stale members out, new panes in.
RECURSIVE ReloadLoop(_, _, _, _)
ReloadLoop(ps, new_pods, idx, cap) ==
    IF idx > Len(ps) THEN <<ps, new_pods>>
    ELSE LET stale == IF session_exists(ps[idx].tmux_session)
                      THEN remove_stale_members(ps[idx]) ELSE ps[idx]
             ps1 == [ps EXCEPT ![idx] = stale]
             discovered == discover_new_members(stale, ps1 \o new_pods, cap)
         IN ReloadLoop([ps1 EXCEPT ![idx] = ParentAfterChildren(stale, discovered)],
                       new_pods \o create_child_pods(stale, discovered),
                       idx + 1, cap)

focused_interval == 1
permission_interval == 1
working_interval == 3
idle_interval == 10
error_interval == 5

\* The interval chosen from the status alone.
PollIntervalByStatus(member, is_focused) ==
    CASE member.status = "Permission" -> permission_interval
      [] member.status = "Working" -> working_interval
      [] member.status = "Error" -> error_interval
      [] OTHER -> idle_interval

PollInterval(member, is_focused) ==
    IF is_focused THEN focused_interval
    ELSE CASE member.status = "Permission" -> permission_interval
           [] member.status = "Working" -> working_interval
           [] member.status = "Error" -> error_interval
           [] OTHER -> idle_interval

should_poll(member, is_focused) ==
    IF member.last_polled # Never
    THEN now - member.last_polled >= PollInterval(member, is_focused)
    ELSE TRUE

PollMember(member, is_focused, cap) ==
    IF ~should_poll(member, is_focused) THEN member
    ELSE [DetectMember(member, cap) EXCEPT !.last_polled = now]

PollPod(pod, is_focused, cap) ==
    IF ~session_exists(pod.tmux_session) THEN MarkDead(pod)
    ELSE LET alive == Revive(pod)
         IN rollup_status([alive EXCEPT !.members =
                [i \in 1..Len(alive.members) |->
                   PollMember(alive.members[i], is_focused, cap)]])

selective_refresh(cap, hook_events) ==
    LET hooked == ApplySubagents(ApplyHooks(pods, hook_events), hook_events)
        reload == now - last_store_reload >= ReloadInterval
        loaded == IF reload THEN ReloadStore(hooked, store) ELSE hooked
        r == IF reload THEN ReloadLoop(loaded, <<>>, 1, cap) ELSE <<loaded, <<>>>>
        extended == r[1] \o r[2]
        cleaned == IF reload THEN remove_orphan_child_pods(extended) ELSE extended
        focus_idx == IF reload THEN ReloadFocus(focus, loaded) ELSE focus
    IN /\ Bounded(extended)
       /\ last_store_reload' = IF reload THEN now ELSE last_store_reload
       /\ focus' = focus_idx
       /\ store' = IF Len(r[2]) # 0 THEN save(extended) ELSE store
       /\ pods' = [p \in 1..Len(cleaned) |->
                     PollPod(cleaned[p], focus_idx = p - 1, cap)]
       /\ IF mode = "Detail" /\ FocusedPodDead(pods', focus')
          THEN LeaveDetail
          ELSE UNCHANGED detail
       /\ UNCHANGED <<now, sessions, panes, nextPane, commands, notif, others>>

\* --------------------------------------------------------- the tmux server
\* An assistant opens a pane in a live session (a teammate, a shell).
PaneAppears(session, kind) ==
    /\ session_exists(session)
    /\ nextPane < MaxPanes
    /\ panes' = panes \cup {[id |-> nextPane, session |-> session, kind |-> kind]}
    /\ nextPane' = nextPane + 1
    /\ UNCHANGED <<pods, store, focus, last_store_reload, now, sessions, commands, notif, detail, others>>

PaneExits(id) ==
    /\ PaneAlive(id)
    /\ sessions' = AfterKill({id})[1]
    /\ panes' = AfterKill({id})[2]
    /\ UNCHANGED <<pods, store, focus, last_store_reload, now, nextPane, commands, notif, detail, others>>

\* The captures one refresh can see, and the batches it can drain.
Captures(classes) == [{p.id : p \in panes} -> classes]
HookBatches == {<<>>} \cup {<<e>> : e \in HookEvents}

\* DetailPtyStream::start has truncated the file and opened it for reading.
InitStreamIdle ==
    /\ stream_file = <<>>
    /\ stream_reader = [pc |-> "idle", pos |-> 0, total |-> 0, ret |-> Never,
                        fed_before |-> 0]
    /\ parser = <<>>

InitDetectorIdle ==
    /\ arg_output = <<>>
    /\ arg_statuses = <<>>
    /\ ret_status = None

\* The Home view, no window touched.
InitDetailIdle ==
    /\ mode = "Home"
    /\ selected_member = Never
    /\ detail_pty_stream = Never
    /\ detail_original_window_size = <<>>
    /\ windows = {}
    /\ pipes = {}
    /\ files = {}

\* Nothing has been called, read or written yet.
InitHooksIdle ==
    /\ hooks_file = [exists |-> FALSE, lines |-> <<>>, appended |-> 0, truncated |-> FALSE]
    /\ last_position = 0
    /\ events = <<>>
    /\ delivered = {}

InitStoreIdle ==
    /\ disk = [target |-> 0, tmp |-> 0]
    /\ inodes = <<>>
    /\ inst = <<>>
    /\ load_result = <<>>
    /\ saved = {}
    /\ saves = 0

InitOthers ==
    /\ arg_parent = None
    /\ arg_discovered = <<>>
    /\ ret_children = <<>>
    /\ InitHooksIdle
    /\ InitStoreIdle
    /\ InitDetailIdle
    /\ InitDetectorIdle
    /\ InitStreamIdle

\* --------------------------------------------------------------- App::new
Init ==
    /\ InitOthers
    /\ pods = <<>>
    /\ store = <<>>
    /\ focus = Never
    /\ last_store_reload = 0
    /\ now = 0
    /\ sessions = {}
    /\ panes = {}
    /\ nextPane = 0
    /\ commands = 0
    /\ previous_permission_pods = {}
    /\ notified = {}
    /\ current_permission = None

Tick ==
    /\ now < MaxTime
    /\ now' = now + 1
    /\ UNCHANGED <<pods, store, focus, last_store_reload, sessions, panes, nextPane, commands, notif, detail, others>>

Refresh(classes) ==
    \/ \E cap \in Captures(classes) : refresh_pod_states(cap)
    \/ \E cap \in Captures(classes), ev \in HookBatches : selective_refresh(cap, ev)

Tmux ==
    \/ \E s \in sessions, k \in PaneKinds : PaneAppears(s, k)
    \/ \E p \in panes : PaneExits(p.id)

\* The whole system.
Next ==
    \/ Tick
    \/ Tmux
    \/ \E n \in CreateNames, g \in GroupArgs \cup RootGroups : create_pod(n, g)
    \/ \E s \in sessions, n \in AdoptNames, g \in GroupArgs : adopt_session(s, n, g)
    \/ \E n \in PodNames : drop_pod(n)
    \/ \E n \in PodNames : forget_pod(n)
    \/ Refresh(CaptureClasses)

Spec == Init /\ [][Next]_vars

\* The roster within one second, ReloadInterval after start: every command,
\* the tmux server and the refreshes, the clock standing still.
InitRoster ==
    /\ InitOthers
    /\ pods = <<>>
    /\ store = <<>>
    /\ focus = Never
    /\ last_store_reload = 0
    /\ now = ReloadInterval
    /\ sessions = {}
    /\ panes = {}
    /\ nextPane = 0
    /\ commands = 0
    /\ previous_permission_pods = {}
    /\ notified = {}
    /\ current_permission = None

NextRoster ==
    \/ Tmux
    \/ \E n \in CreateNames : create_pod(n, None)
    \/ \E s \in sessions, n \in AdoptNames, g \in GroupArgs : adopt_session(s, n, g)
    \/ \E n \in PodNames : drop_pod(n)
    \/ \E n \in PodNames : forget_pod(n)
    \/ Refresh(RosterClasses)

SpecRoster == InitRoster /\ [][NextRoster]_vars

\* Working time: the clock runs over the Pods the operator creates.
NextClock ==
    \/ Tick
    \/ Tmux
    \/ \E n \in CreateNames, g \in RootGroups \cup {None} : create_pod(n, g)
    \/ Refresh(WorkClasses)

SpecClock == Init /\ [][NextClock]_vars

\* ------------------------------------------------------------------ claims
PodIdx(roster) == 1..Len(roster)
MemberIdx(pod) == 1..Len(pod.members)

RolledUp(pod) == pod.status = rollup_status(pod).status

RefreshPodStatesStep == \E cap \in Captures(CaptureClasses) : refresh_pod_states(cap)
SelectiveRefreshStep ==
    \E cap \in Captures(CaptureClasses), ev \in HookBatches : selective_refresh(cap, ev)
RefreshStep == RefreshPodStatesStep \/ SelectiveRefreshStep

\* C1: when refresh_pod_states or selective_refresh returns, every Pod of the
\* roster has the status its members roll up to (Idle without members).
C1_RollupAfterRefresh ==
    [][RefreshStep => \A i \in PodIdx(pods') : RolledUp(pods'[i])]_vars

\* C2: no two Pods of the roster have the same name.
C2_UniqueNames ==
    \A i, j \in PodIdx(pods) : i # j => pods[i].name # pods[j].name

\* C3: discover_new_members returns no pane that a Pod of all_pods sharing the
\* session owns; in a refresh, a pane no Pod of its session owned is attached to
\* at most one Pod, and a pane that was owned is attached to no further Pod.
Holders(roster, pane) ==
    {i \in PodIdx(roster) :
        /\ roster[i].tmux_session = pane.session
        /\ pane.id \in MemberPanes(roster[i].members)}

\* Discovery tells a capture that fails from one that succeeds, no more.
DiscoversOnlyUnknown(pod, all_pods, cap) ==
    MemberPanes(discover_new_members(pod, all_pods, cap))
        \cap KnownPanes(pod.tmux_session, all_pods) = {}

C3_PaneAttachedOnce ==
    [][commands' = commands /\ panes' = panes =>
         /\ \A i \in PodIdx(pods), cap \in Captures({"Working", "Err"}) :
               DiscoversOnlyUnknown(pods[i], pods, cap)
         /\ \A p \in panes :
               /\ Holders(pods, p) = {} => Cardinality(Holders(pods', p)) <= 1
               /\ Holders(pods, p) # {} =>
                    Cardinality(Holders(pods', p)) <= Cardinality(Holders(pods, p))]_vars

\* Two Pods share a session and a pane that appeared later sits in one child.
C3_Witness ==
    \E p \in panes :
        /\ p.kind = "@w"
        /\ Cardinality(Holders(pods, p)) = 1
        /\ Cardinality({i \in PodIdx(pods) : pods[i].tmux_session = p.session}) >= 3

\* C4: when a refresh returns, a Pod whose session does not exist is Dead and
\* so is every one of its members.
C4_DeadSessionDeadMembers ==
    [][RefreshStep =>
         \A i \in PodIdx(pods') :
            ~session_exists(pods'[i].tmux_session) =>
               /\ pods'[i].status = "Dead"
               /\ \A m \in MemberIdx(pods'[i]) : pods'[i].members[m].status = "Dead"]_vars

\* The member of pods[i] and the member of pods'[j] are one member.
SameMember(p, m, q, n) ==
    /\ p.name = q.name
    /\ p.members[m].tmux_pane = q.members[n].tmux_pane

\* C5: a member that leaves Working is credited the seconds since its last
\* status change.
C5_CreditOnLeavingWorking ==
    [][\A i \in PodIdx(pods), j \in PodIdx(pods') :
         \A m \in MemberIdx(pods[i]), n \in MemberIdx(pods'[j]) :
            ( /\ SameMember(pods[i], m, pods'[j], n)
              /\ pods[i].members[m].status = "Working"
              /\ pods'[j].members[n].status # "Working" )
            => pods'[j].members[n].working_secs =
                  pods[i].members[m].working_secs + Elapsed(pods[i].members[m])]_vars

\* C6: the working_secs of a member that stays in the roster never decreases.
C6_WorkingSecsMonotone ==
    [][\A i \in PodIdx(pods), j \in PodIdx(pods') :
         \A m \in MemberIdx(pods[i]), n \in MemberIdx(pods'[j]) :
            SameMember(pods[i], m, pods'[j], n)
            => pods'[j].members[n].working_secs >= pods[i].members[m].working_secs]_vars

\* A member has been credited working time and has gone back to work.
C6_Witness ==
    \E i \in PodIdx(pods) : \E m \in MemberIdx(pods[i]) :
        /\ pods[i].members[m].working_secs > 0
        /\ pods[i].members[m].status = "Working"

\* C7: the accumulated working time of a Pod that stays in the roster never
\* decreases.
C7_PodWorkingTimeMonotone ==
    [][\A i \in PodIdx(pods), j \in PodIdx(pods') :
         pods[i].name = pods'[j].name
         => total_working_time(pods'[j]) >= total_working_time(pods[i])]_vars

\* C8: the orphan cleanup keeps, in order, exactly the Pods that have a member,
\* or no group, or are the root of their group, or are alone in their group.
ClaimedToStay(pod, roster) ==
    \/ Len(pod.members) # 0
    \/ pod.group = None
    \/ pod.name = pod.group
    \/ Cardinality({k \in PodIdx(roster) : roster[k].group = pod.group}) = 1

C8_OrphanCleanupKeeps ==
    [][\A cap \in Captures(CaptureClasses) :
         refresh_pod_states(cap) =>
            pods' = SelectSeq(RefreshedRoster(cap),
                              LAMBDA pod : ClaimedToStay(pod, RefreshedRoster(cap)))]_vars

\* C9: after the orphan cleanup no Pod is member-less, grouped, not the root of
\* its group and has a sibling of the same group.
OrphanWithSibling(roster, i) ==
    /\ Len(roster[i].members) = 0
    /\ roster[i].group # None
    /\ roster[i].name # roster[i].group
    /\ \E k \in PodIdx(roster) : k # i /\ roster[k].group = roster[i].group

OrphanCleanupStep ==
    \/ RefreshPodStatesStep
    \/ now - last_store_reload >= ReloadInterval /\ SelectiveRefreshStep

C9_NoOrphanAfterCleanup ==
    [][OrphanCleanupStep => \A i \in PodIdx(pods') : ~OrphanWithSibling(pods', i)]_vars

\* C10: every child Pod with group g has a Pod named g in the roster, or is
\* itself named g.
Roles == {"w"} \cup {"member-" \o ToString(k) : k \in 0..MaxPanes}
IsChild(roster, i) ==
    \E r \in Roles, n \in {"a", "a/w", "a/w/w"} : roster[i].name = n \o "/" \o r

C10_NoDanglingGroup ==
    \A i \in PodIdx(pods) :
        IsChild(pods, i) /\ pods[i].group # None =>
            \/ pods[i].name = pods[i].group
            \/ \E k \in PodIdx(pods) : pods[k].name = pods[i].group

\* C10 as amended: a child Pod a refresh creates is named parent/role, shares
\* the parent's session and takes the parent's group, or the parent's name when
\* the parent had none; in that case the parent is in the roster as the root.
Range(seq) == {seq[i] : i \in 1..Len(seq)}

IsNewChild(j) ==
    /\ Len(pods'[j].members) = 1
    /\ \A q \in Range(pods \o store) :
          pods'[j].members[1].tmux_pane \notin MemberPanes(q.members)

C10_ChildTakesParentGroup ==
    [][commands' = commands =>
         \A j \in PodIdx(pods') :
            IsNewChild(j) =>
               \E parent \in Range(pods \o store) :
                  /\ pods'[j].name = parent.name \o "/" \o pods'[j].members[1].role
                  /\ pods'[j].tmux_session = parent.tmux_session
                  /\ pods'[j].group =
                        IF parent.group = None THEN parent.name ELSE parent.group
                  /\ parent.group = None =>
                        \E k \in PodIdx(pods') :
                           /\ pods'[k].name = parent.name
                           /\ pods'[k].group = parent.name]_vars

\* A child sits in the roster next to the root its group names.
C10_Witness ==
    \E j, k \in PodIdx(pods) :
        /\ Len(pods[j].members) = 1
        /\ pods[j].name = pods[k].name \o "/" \o pods[j].members[1].role
        /\ pods[j].group = pods[k].name
        /\ pods[k].group = pods[k].name
        /\ j # k

\* ------------------------------------------- create_child_pods, called alone
\* The application before its first command.
InitApp ==
    /\ InitDetailIdle
    /\ InitStreamIdle
    /\ pods = <<>>
    /\ store = <<>>
    /\ focus = Never
    /\ last_store_reload = 0
    /\ now = 0
    /\ sessions = {}
    /\ panes = {}
    /\ nextPane = 0
    /\ commands = 0
    /\ previous_permission_pods = {}
    /\ notified = {}
    /\ current_permission = None

MaxCandidates == 2

\* The parents a call is made on: with and without a group, with and without
\* a project.
ParentInputs ==
    {[name |-> n, pod_type |-> "Solo", members |-> <<NewMember("claude", "Idle", 0)>>,
      status |-> "Idle", tmux_session |-> ses, project |-> prj, group |-> g,
      total_working_secs |-> 0] :
        n \in {"a", "a/w"}, ses \in {"a", "s"}, prj \in {None, "proj"},
        g \in {None, "a", "proj"}}

CandidateInputs ==
    UNION {[1..k -> {NewMember(r, "Working", pn) : r \in {"w", "member-1"}, pn \in {1, 2}}] :
             k \in 0..MaxCandidates}

InitChildren ==
    /\ InitApp
    /\ InitDetectorIdle
    /\ arg_parent \in ParentInputs
    /\ arg_discovered \in CandidateInputs
    /\ ret_children = <<>>
    /\ InitHooksIdle
    /\ InitStoreIdle

\* let children = create_child_pods(&mut parent, discovered)
CreateChildPodsCall ==
    /\ ret_children' = create_child_pods(arg_parent, arg_discovered)
    /\ arg_parent' = ParentAfterChildren(arg_parent, arg_discovered)
    /\ UNCHANGED <<arg_discovered, main, detectorVars, streamVars, hookVars, storeVars>>

\* The caller hands the next candidates to the same parent.
NextCandidates ==
    /\ Len(ret_children) = Len(arg_discovered)
    /\ arg_discovered' \in CandidateInputs
    /\ UNCHANGED <<arg_parent, ret_children, main, detectorVars, streamVars, hookVars, storeVars>>

NextChildren == CreateChildPodsCall \/ NextCandidates

SpecChildren == InitChildren /\ [][NextChildren]_vars

\* C11: create_child_pods returns one Solo Pod per candidate, in order, named
\* parent/role, holding the candidate alone, with the parent's session and
\* project and the group the parent has after the call; the parent's group
\* becomes its name when it was unset and nothing else of the parent changes;
\* without candidates nothing is returned and the parent is unchanged.
C11_CreateChildPods ==
    [][CreateChildPodsCall =>
         /\ Len(ret_children') = Len(arg_discovered)
         /\ \A i \in 1..Len(arg_discovered) :
               /\ ret_children'[i].name = arg_parent.name \o "/" \o arg_discovered[i].role
               /\ ret_children'[i].pod_type = "Solo"
               /\ ret_children'[i].members = <<arg_discovered[i]>>
               /\ ret_children'[i].tmux_session = arg_parent.tmux_session
               /\ ret_children'[i].project = arg_parent.project
               /\ ret_children'[i].group = arg_parent'.group
         /\ arg_parent'.group =
               IF arg_parent.group = None /\ Len(arg_discovered) # 0
               THEN arg_parent.name ELSE arg_parent.group
         /\ [arg_parent' EXCEPT !.group = arg_parent.group] = arg_parent
         /\ Len(arg_discovered) = 0 => ret_children' = <<>> /\ arg_parent' = arg_parent]_vars

\* Two children were made for a parent that already had a group.
C11_Witness ==
    /\ Len(ret_children) = 2
    /\ arg_parent.group = "proj"
    /\ arg_parent.name # "proj"
    /\ ret_children[1].group = "proj"
    /\ ret_children[2].name = arg_parent.name \o "/" \o arg_discovered[2].role

\* ----------------------------------------------------------------- hooks.rs
\* A line of the log is [timestamp, len, event, part]: len bytes with the
\* newline; event is the "event" of the JSON object, or "garbage" when the line
\* is no JSON object.  The hook scripts stamp every line they append.  A line
\* that reaches the file in two writes is its "head", bytes of the object
\* without a newline, followed by its "rest"; every other line is "whole".
MaxLines == 3
LineLens == {2, 3}
LineEvents == {"tool_start", "garbage"}

RECURSIVE FileLen(_)
FileLen(lines) == IF Len(lines) = 0 THEN 0 ELSE lines[1].len + FileLen(Tail(lines))

\* serde_json::from_str::<HookEvent>(line.trim())
ParsesAsEvent(line) == line.event # "garbage" /\ line.part = "whole"

\* BufRead::read_line reads up to the next newline: a head and its rest are
\* one line, a head at the end of the file is a line of its own.
RECURSIVE JoinLines(_)
JoinLines(lines) ==
    IF Len(lines) = 0 THEN <<>>
    ELSE IF Len(lines) >= 2 /\ lines[1].part = "head" /\ lines[2].part = "rest"
    THEN <<[timestamp |-> lines[1].timestamp, len |-> lines[1].len + lines[2].len,
            event |-> lines[1].event, part |-> "whole"]>>
         \o JoinLines(SubSeq(lines, 3, Len(lines)))
    ELSE <<lines[1]>> \o JoinLines(Tail(lines))
HookEventOf(line) == [event |-> line.event, session |-> None, timestamp |-> line.timestamp]

\* The read_line loop from byte pos on; start is the offset of Head(lines).
\* A line entered in its middle yields its tail, which is no JSON object.
RECURSIVE ReadLines(_, _, _, _)
ReadLines(lines, start, pos, acc) ==
    IF Len(lines) = 0 THEN acc
    ELSE LET line == Head(lines)
             next == start + line.len
         IN IF next <= pos THEN ReadLines(Tail(lines), next, pos, acc)
            ELSE IF start >= pos /\ ParsesAsEvent(line)
            THEN ReadLines(Tail(lines), next, pos, Append(acc, HookEventOf(line)))
            ELSE ReadLines(Tail(lines), next, pos, acc)

\* poll_events that seeks to the cursor whatever the length of the file.
poll_events_without_reset(file, position) ==
    IF ~file.exists THEN [events |-> <<>>, last_position |-> position]
    ELSE [events |-> ReadLines(JoinLines(file.lines), 0, position, <<>>),
          last_position |-> IF FileLen(file.lines) > position
                            THEN FileLen(file.lines) ELSE position]

\* poll_events that reads from the cursor and leaves it where it was.
poll_events_keeping_cursor(file, position) ==
    IF ~file.exists THEN [events |-> <<>>, last_position |-> position]
    ELSE LET from == IF FileLen(file.lines) < position THEN 0 ELSE position
         IN [events |-> ReadLines(JoinLines(file.lines), 0, from, <<>>),
             last_position |-> from]

\* poll_events: the events it returns and the cursor it leaves.
poll_events(file, position) ==
    IF ~file.exists THEN [events |-> <<>>, last_position |-> position]
    ELSE LET from == IF FileLen(file.lines) < position THEN 0 ELSE position
         IN [events |-> ReadLines(JoinLines(file.lines), 0, from, <<>>),
             last_position |-> FileLen(file.lines)]

\* HooksReceiver::new and init: the cursor starts at the end of the file.
InitHooks ==
    /\ InitApp
    /\ InitDetectorIdle
    /\ arg_parent = None
    /\ arg_discovered = <<>>
    /\ ret_children = <<>>
    /\ InitStoreIdle
    /\ \E n \in 0..1, ev \in LineEvents, ln \in LineLens :
          hooks_file = [exists |-> TRUE,
                        lines |-> [i \in 1..n |-> [timestamp |-> i, len |-> ln, event |-> ev,
                                                   part |-> "whole"]],
                        appended |-> n, truncated |-> FALSE]
    /\ last_position = FileLen(hooks_file.lines)
    /\ events = <<>>
    /\ delivered = {}

Timestamps(evs) == {evs[i].timestamp : i \in 1..Len(evs)}

PollEvents ==
    /\ events' = poll_events(hooks_file, last_position).events
    /\ last_position' = poll_events(hooks_file, last_position).last_position
    /\ delivered' = delivered \cup Timestamps(events')
    /\ UNCHANGED <<hooks_file, main, detectorVars, streamVars, callVars, storeVars>>

\* A hook script appends one line.
HookAppends(ev, ln) ==
    /\ hooks_file.appended < MaxLines
    /\ hooks_file' = [hooks_file EXCEPT
                        !.exists = TRUE,
                        !.lines = Append(@, [timestamp |-> hooks_file.appended + 1,
                                             len |-> ln, event |-> ev, part |-> "whole"]),
                        !.appended = @ + 1]
    /\ UNCHANGED <<last_position, events, delivered, main, detectorVars, streamVars, callVars, storeVars>>

\* The log is emptied, or removed (/tmp is cleaned).
HookLogTruncated ==
    /\ hooks_file.exists
    /\ hooks_file' = [hooks_file EXCEPT !.lines = <<>>, !.truncated = TRUE]
    /\ UNCHANGED <<last_position, events, delivered, main, detectorVars, streamVars, callVars, storeVars>>

HookLogRemoved ==
    /\ hooks_file.exists
    /\ hooks_file' = [hooks_file EXCEPT !.exists = FALSE, !.lines = <<>>, !.truncated = TRUE]
    /\ UNCHANGED <<last_position, events, delivered, main, detectorVars, streamVars, callVars, storeVars>>

NextHooks ==
    \/ PollEvents
    \/ \E ev \in LineEvents, ln \in LineLens : HookAppends(ev, ln)
    \/ HookLogTruncated
    \/ HookLogRemoved

SpecHooks == InitHooks /\ [][NextHooks]_vars

\* The events of the lines that start at or after byte pos, in file order.
RECURSIVE RecordsSince(_, _, _)
RecordsSince(lines, start, pos) ==
    IF Len(lines) = 0 THEN <<>>
    ELSE (IF start >= pos /\ lines[1].event # "garbage"
          THEN <<[event |-> lines[1].event, session |-> None,
                  timestamp |-> lines[1].timestamp]>>
          ELSE <<>>)
         \o RecordsSince(Tail(lines), start + lines[1].len, pos)

\* C12: while the log has only been appended to, a poll returns the records
\* appended since the cursor in file order, a poll of an unchanged file returns
\* nothing, the cursor never decreases and no record is returned twice.
C12_PollReturnsNewRecordsOnce ==
    [][PollEvents /\ ~hooks_file.truncated =>
         /\ events' = RecordsSince(hooks_file.lines, 0, last_position)
         /\ last_position = FileLen(hooks_file.lines) => events' = <<>>
         /\ last_position' >= last_position
         /\ Timestamps(events') \cap delivered = {}]_vars

\* A poll returned two records at once, after an earlier poll returned one.
C12_Witness ==
    /\ ~hooks_file.truncated
    /\ Len(events) = 2
    /\ events[1].timestamp < events[2].timestamp
    /\ Cardinality(delivered) = 3
    /\ last_position = FileLen(hooks_file.lines)

\* C13: a poll that finds the file shorter than the cursor returns the records
\* from byte zero and leaves the cursor at the end of what it read; a poll that
\* finds no file returns nothing and leaves the cursor unchanged.
C13_TruncationAndAbsence ==
    [][PollEvents =>
         /\ ( hooks_file.exists /\ FileLen(hooks_file.lines) < last_position ) =>
               /\ events' = RecordsSince(hooks_file.lines, 0, 0)
               /\ last_position' = FileLen(hooks_file.lines)
         /\ ~hooks_file.exists =>
               /\ events' = <<>>
               /\ last_position' = last_position]_vars

\* After a truncation a poll has returned the first line of the new content.
C13_Witness ==
    /\ hooks_file.truncated
    /\ hooks_file.exists
    /\ Len(hooks_file.lines) > 0
    /\ Len(events) > 0
    /\ events[1].timestamp = hooks_file.lines[1].timestamp
    /\ last_position = FileLen(hooks_file.lines)
    /\ \E t \in delivered : t < events[1].timestamp

\* ------------------------------------------- store/mod.rs, the file itself
\* A file is a sequence of JSON tokens: "[", one object for each Pod, "]".
\* The callers of the store: the instances that share ~/.config/apiary.
Instances == 1..2
MaxSaves == 3
NoInode == 0

OpenToken == [tok |-> "["]
CloseToken == [tok |-> "]"]
NulToken == [tok |-> "nul"]
GarbageToken == [tok |-> "garbage"]

\* serde's Serialize for Member: last_polled is skipped.
MemberJson(member) ==
    [role |-> member.role, status |-> member.status, tmux_pane |-> member.tmux_pane,
     last_change |-> member.last_change,
     working_secs |-> member.working_secs, sub_agents |-> member.sub_agents,
     last_output |-> member.last_output]

\* Member serialized without its working_secs, which Deserialize would default.
MemberJsonSkippingWorkingSecs(member) ==
    [role |-> member.role, status |-> member.status, tmux_pane |-> member.tmux_pane,
     last_change |-> member.last_change,
     sub_agents |-> member.sub_agents, last_output |-> member.last_output]

PodJsonSkippingWorkingSecs(pod) ==
    [tok |-> "pod",
     json |-> [pod EXCEPT !.members =
                 [i \in 1..Len(pod.members) |-> MemberJsonSkippingWorkingSecs(pod.members[i])]]]

\* serde's Serialize for Pod
PodJson(pod) ==
    [tok |-> "pod",
     json |-> [pod EXCEPT !.members =
                 [i \in 1..Len(pod.members) |-> MemberJson(pod.members[i])]]]

to_string_pretty_skipping_working_secs(roster) ==
    <<OpenToken>>
    \o [i \in 1..Len(roster) |-> PodJsonSkippingWorkingSecs(roster[i])]
    \o <<CloseToken>>

\* serde_json::to_string_pretty(pods)
to_string_pretty(roster) ==
    <<OpenToken>> \o [i \in 1..Len(roster) |-> PodJson(roster[i])] \o <<CloseToken>>

\* serde's Deserialize for Member: last_polled is None, working_secs defaults.
MemberFromJson(j) ==
    [role |-> j.role, status |-> j.status, tmux_pane |-> j.tmux_pane,
     last_change |-> j.last_change, last_polled |-> Never,
     working_secs |-> IF "working_secs" \in DOMAIN j THEN j.working_secs ELSE 0,
     sub_agents |-> j.sub_agents, last_output |-> j.last_output]

PodFromJson(j) ==
    [j EXCEPT !.members = [i \in 1..Len(j.members) |-> MemberFromJson(j.members[i])]]

\* serde_json::from_str::<Vec<Pod>>(content)
from_str(content) ==
    IF /\ Len(content) >= 2
       /\ content[1] = OpenToken
       /\ content[Len(content)] = CloseToken
       /\ \A i \in 2..(Len(content) - 1) : content[i].tok = "pod"
    THEN [ok |-> TRUE,
          pods |-> [i \in 1..(Len(content) - 2) |-> PodFromJson(content[i + 1].json)]]
    ELSE [ok |-> FALSE, pods |-> <<>>]

FileExists(d) == d.target # NoInode
FileContent(d, ino) == IF FileExists(d) THEN ino[d.target] ELSE <<>>

\* PodStore::load
load(d, ino) ==
    IF ~FileExists(d) THEN [ok |-> TRUE, pods |-> <<>>]
    ELSE IF Len(ino[d.target]) = 0 THEN [ok |-> TRUE, pods |-> <<>>]
    ELSE from_str(ino[d.target])

StorePod(name, polled, worked) ==
    [name |-> name, pod_type |-> "Solo",
     members |-> <<[role |-> "claude", status |-> "Idle", tmux_pane |-> 0,
                    last_change |-> 0, last_polled |-> polled,
                    working_secs |-> worked, sub_agents |-> <<>>,
                    last_output |-> "plain"]>>,
     status |-> "Idle", tmux_session |-> name, project |-> CurrentProject,
     group |-> CurrentProject, total_working_secs |-> 0]

\* The Pods the commands add: one polled and with working time, one fresh.
StorePods == {StorePod("a", 1, 1), StorePod("b", Never, 0)}

InitialContents == {<<>>, <<GarbageToken>>, to_string_pretty(<<StorePod("a", 1, 1)>>)}

IdleInstance ==
    [running |-> FALSE, parse_failed |-> FALSE, roster |-> <<>>,
     pc |-> "idle", content |-> <<>>, fd |-> NoInode, offset |-> 0]

InitStore ==
    /\ InitApp
    /\ InitDetectorIdle
    /\ arg_parent = None
    /\ arg_discovered = <<>>
    /\ ret_children = <<>>
    /\ InitHooksIdle
    /\ \/ disk = [target |-> NoInode, tmp |-> NoInode] /\ inodes = <<>> /\ saved = {}
       \/ \E c \in InitialContents :
             /\ disk = [target |-> 1, tmp |-> NoInode]
             /\ inodes = <<c>>
             /\ saved = {c}
    /\ inst = [i \in Instances |-> IdleInstance]
    /\ load_result = [ok |-> TRUE, pods |-> <<>>, content |-> <<>>]
    /\ saves = 0

\* The first line of PodStore::save: the content is fixed, the write is to come.
BeginSave(i, roster, app) ==
    [app EXCEPT !.roster = roster, !.pc = "open",
               !.content = to_string_pretty(roster), !.offset = 0]

\* App::new: load_and_reconcile().unwrap_or_default().  Every stored session
\* and pane is alive here, so the reconciliation keeps the roster and saves it.
AppNew(i) ==
    /\ ~inst[i].running
    /\ inst[i].pc = "idle"
    /\ LET r == load(disk, inodes)
       IN /\ load_result' = [ok |-> r.ok, pods |-> r.pods, content |-> FileContent(disk, inodes)]
          /\ IF r.ok
             THEN /\ saves < MaxSaves
                  /\ saves' = saves + 1
                  /\ inst' = [inst EXCEPT ![i] =
                                BeginSave(i, r.pods, [@ EXCEPT !.running = TRUE,
                                                              !.parse_failed = FALSE])]
                  /\ saved' = saved \cup {to_string_pretty(r.pods)}
             ELSE /\ inst' = [inst EXCEPT ![i] =
                                [@ EXCEPT !.running = TRUE, !.parse_failed = TRUE,
                                          !.roster = <<>>]]
                  /\ UNCHANGED <<saved, saves>>
    /\ UNCHANGED <<disk, inodes, main, detectorVars, streamVars, callVars, hookVars>>

\* create and adopt push a Pod and save; drop and forget remove one and save.
StoreCommand(i) ==
    /\ inst[i].running
    /\ inst[i].pc = "idle"
    /\ saves < MaxSaves
    /\ saves' = saves + 1
    /\ \E roster \in
          {Append(inst[i].roster, p) : p \in {q \in StorePods : ~HasPod(inst[i].roster, q.name)}}
          \cup {RemoveAt(inst[i].roster, k) : k \in 1..Len(inst[i].roster)} :
          /\ inst' = [inst EXCEPT ![i] = BeginSave(i, roster, @)]
          /\ saved' = saved \cup {to_string_pretty(roster)}
    /\ UNCHANGED <<disk, inodes, load_result, main, detectorVars, streamVars, callVars, hookVars>>

\* run_tui: app.save() when the event loop has returned.
Quit(i) ==
    /\ inst[i].running
    /\ inst[i].pc = "idle"
    /\ saves < MaxSaves
    /\ saves' = saves + 1
    /\ inst' = [inst EXCEPT ![i] = BeginSave(i, inst[i].roster, [@ EXCEPT !.running = FALSE])]
    /\ saved' = saved \cup {to_string_pretty(inst[i].roster)}
    /\ UNCHANGED <<disk, inodes, load_result, main, detectorVars, streamVars, callVars, hookVars>>

\* std::fs::write: open(tmp_path, O_WRONLY | O_CREAT | O_TRUNC).
SaveOpen(i) ==
    /\ inst[i].pc = "open"
    /\ IF disk.tmp = NoInode
       THEN /\ inodes' = Append(inodes, <<>>)
            /\ disk' = [disk EXCEPT !.tmp = Len(inodes) + 1]
       ELSE /\ inodes' = [inodes EXCEPT ![disk.tmp] = <<>>]
            /\ UNCHANGED disk
    /\ inst' = [inst EXCEPT ![i] = [@ EXCEPT !.pc = "write", !.fd = disk'.tmp]]
    /\ UNCHANGED <<load_result, saved, saves, main, detectorVars, streamVars, callVars, hookVars>>

\* write(fd) at the descriptor's offset: past the end leaves a hole of NULs.
WriteAt(content, offset, token) ==
    [k \in 1..(IF Len(content) > offset THEN Len(content) ELSE offset + 1) |->
        IF k = offset + 1 THEN token
        ELSE IF k <= Len(content) THEN content[k] ELSE NulToken]

\* std::fs::write: write_all, one write after another.
SaveWrite(i) ==
    /\ inst[i].pc = "write"
    /\ inodes' = [inodes EXCEPT ![inst[i].fd] =
                    WriteAt(@, inst[i].offset, inst[i].content[inst[i].offset + 1])]
    /\ inst' = [inst EXCEPT ![i] =
                  [@ EXCEPT !.offset = @ + 1,
                            !.pc = IF inst[i].offset + 1 = Len(inst[i].content)
                                   THEN "rename" ELSE "write"]]
    /\ UNCHANGED <<disk, load_result, saved, saves, main, detectorVars, streamVars, callVars, hookVars>>

\* std::fs::rename(tmp_path, path); ENOENT when another save took the name.
SaveRename(i) ==
    /\ inst[i].pc = "rename"
    /\ disk' = IF disk.tmp = NoInode THEN disk
               ELSE [target |-> disk.tmp, tmp |-> NoInode]
    /\ inst' = [inst EXCEPT ![i] = [@ EXCEPT !.pc = "idle", !.fd = NoInode]]
    /\ UNCHANGED <<inodes, load_result, saved, saves, main, detectorVars, streamVars, callVars, hookVars>>

\* The dynamic reload of selective_refresh: load, merge, retain.
StoreReload(i) ==
    /\ inst[i].running
    /\ inst[i].pc = "idle"
    /\ LET r == load(disk, inodes)
       IN /\ load_result' = [ok |-> r.ok, pods |-> r.pods, content |-> FileContent(disk, inodes)]
          /\ inst' = [inst EXCEPT ![i] =
                        [@ EXCEPT !.roster = IF r.ok THEN ReloadStore(@, r.pods) ELSE @]]
    /\ UNCHANGED <<disk, inodes, saved, saves, main, detectorVars, streamVars, callVars, hookVars>>

NextStore ==
    \E i \in Instances :
        \/ AppNew(i)
        \/ StoreCommand(i)
        \/ Quit(i)
        \/ SaveOpen(i)
        \/ SaveWrite(i)
        \/ SaveRename(i)
        \/ StoreReload(i)

SpecStore == InitStore /\ [][NextStore]_vars

\* C14: whatever the interleaving of the saves of the instances with the loads,
\* a load reads the initial content or the complete serialization of a roster
\* that was handed to save.
C14_LoadReadsCompleteSave ==
    [][\A i \in Instances :
          (AppNew(i) \/ StoreReload(i)) /\ FileExists(disk)
              => load_result'.content \in saved]_vars

\* C16: an instance that started on an unparsable store file does not replace
\* that file with the roster it started with.
C16_CorruptStoreKept ==
    [][\A i \in Instances :
          ( /\ SaveRename(i)
            /\ inst[i].parse_failed
            /\ ~load(disk, inodes).ok )
              => FileContent(disk', inodes') = FileContent(disk, inodes)]_vars

\* C17: a load that follows save(R) returns the Pods of R in their order with
\* their persisted fields and last_polled at its default; a load of a missing
\* or an empty file returns the empty roster.
C17_SaveThenLoad ==
    [][\A i \in Instances :
          /\ ( /\ SaveRename(i)
               /\ disk.tmp # NoInode
               /\ inodes[disk.tmp] = inst[i].content )
                 => load(disk', inodes') = [ok |-> TRUE, pods |-> save(inst[i].roster)]
          /\ ( /\ AppNew(i) \/ StoreReload(i)
               /\ ~FileExists(disk) \/ Len(inodes[disk.target]) = 0 )
                 => load_result'.ok /\ load_result'.pods = <<>>]_vars

\* A roster of two Pods, one polled, was saved and then loaded: the load has
\* the same Pods with last_polled at its default.
C17_Witness ==
    \E i \in Instances :
        /\ inst[i].pc = "idle"
        /\ Len(inst[i].roster) = 2
        /\ load_result.ok
        /\ load_result.content = to_string_pretty(inst[i].roster)
        /\ load_result.pods = save(inst[i].roster)
        /\ load_result.pods # inst[i].roster
        /\ \E k \in 1..2 : load_result.pods[k].members[1].working_secs = 1

Names(roster) == {roster[k].name : k \in 1..Len(roster)}

\* C15: with both instances running and no save in flight, an instance that
\* runs its periodic reload has afterwards exactly the Pod names of the store
\* file, so that two instances that have both reloaded hold the same names as
\* the file.
C15_ReloadConverges ==
    [][\A i \in Instances :
          ( /\ StoreReload(i)
            /\ \A j \in Instances :
                  inst[j].running /\ ~inst[j].parse_failed /\ inst[j].pc = "idle"
            /\ load(disk, inodes).ok )
              => Names(inst'[i].roster) = Names(load(disk, inodes).pods)]_vars

\* C18: create_pod(name) takes effect only when no Pod of the roster is named
\* name, and then the roster holds exactly one Pod named name, its session is
\* name and the session exists; with a Pod of that name in the roster the call
\* is an error that changes neither the sessions, the roster nor the store.
C18_CreatePod ==
    [][\A n \in CreateNames, g \in GroupArgs \cup RootGroups :
          create_pod(n, g) =>
              /\ \A k \in 1..Len(pods) : pods[k].name # n
              /\ Cardinality({k \in 1..Len(pods') : pods'[k].name = n}) = 1
              /\ \A k \in 1..Len(pods') :
                    pods'[k].name = n => pods'[k].tmux_session = n
              /\ n \in sessions'
              /\ store' = save(pods')]_vars

\* A Pod was created a second time under a name that had been dropped.
C18_Witness ==
    /\ commands = MaxCommands
    /\ Len(pods) = 1
    /\ pods[1].name \in CreateNames
    /\ pods[1].tmux_session = pods[1].name
    /\ session_exists(pods[1].name)
    /\ pods[1].members[1].tmux_pane > 0
    /\ store = save(pods)

\* ------------------------------------------- tui/app.rs, adaptive polling
MaxPollTime == 10
grid_columns == 3
Directions == {"Right", "Left", "Down", "Up"}

\* App::move_focus
move_focus(direction) ==
    /\ Len(pods) # 0
    /\ LET total == Len(pods)
           cols == IF grid_columns >= 1 THEN grid_columns ELSE 1
           current == IF focus = Never THEN 0 ELSE focus
       IN focus' = CASE direction = "Right" ->
                         (IF current + 1 < total THEN current + 1 ELSE current)
                     [] direction = "Left" ->
                         (IF current > 0 THEN current - 1 ELSE current)
                     [] direction = "Down" ->
                         (IF current + cols < total THEN current + cols ELSE current)
                     [] OTHER ->
                         (IF current >= cols THEN current - cols ELSE current)
    /\ UNCHANGED <<pods, store, last_store_reload, now, sessions, panes, nextPane,
                   commands, notif, detail, others>>

\* What detect_member_status finds in the two panes: the first one works, the
\* second one waits, asks or fails.
PollCaptures ==
    {cap \in Captures({"Working", "Idle", "Permission", "Error"}) :
        cap[0] = "Working" /\ cap[1] # "Working"}

\* The roster after `create a` and `create b`, nothing polled yet.
InitPoll ==
    /\ InitOthers
    /\ now = 0
    /\ last_store_reload = 0
    /\ focus = Never
    /\ sessions = {"a", "b"}
    /\ panes = {[id |-> 0, session |-> "a", kind |-> "claude"],
                [id |-> 1, session |-> "b", kind |-> "claude"]}
    /\ nextPane = 2
    /\ commands = 2
    /\ pods = <<StorePod("a", Never, 0),
                [StorePod("b", Never, 0) EXCEPT !.members[1].tmux_pane = 1]>>
    /\ store = pods
    /\ previous_permission_pods = {}
    /\ notified = {}
    /\ current_permission = None

TickPoll ==
    /\ now < MaxPollTime
    /\ now' = now + 1
    /\ UNCHANGED <<pods, store, focus, last_store_reload, sessions, panes, nextPane,
                   commands, notif, detail, others>>

NextPoll ==
    \/ TickPoll
    \/ \E direction \in Directions : move_focus(direction)
    \/ \E cap \in PollCaptures : selective_refresh(cap, <<>>)

SpecPoll == InitPoll /\ [][NextPoll]_vars

ClaimedInterval(status, is_focused) ==
    IF is_focused THEN focused_interval
    ELSE CASE status = "Permission" -> permission_interval
           [] status = "Working" -> working_interval
           [] status = "Error" -> error_interval
           [] status \in {"Idle", "Done", "Dead"} -> idle_interval

\* C19: selective_refresh captures a member of a Pod whose session exists
\* exactly when the member was never polled or its interval has passed since
\* last_polled: the focused interval in the focused Pod, the interval of the
\* member's status elsewhere, Done and Dead taking the Idle interval.
C19_PolledWhenDue ==
    [][\A cap \in PollCaptures :
          selective_refresh(cap, <<>>) /\ Len(pods') = Len(pods) =>
              \A p \in 1..Len(pods) :
                 session_exists(pods[p].tmux_session) =>
                    \A i \in 1..Len(pods[p].members) :
                       LET m == pods[p].members[i]
                           due == \/ m.last_polled = Never
                                  \/ now - m.last_polled
                                        >= ClaimedInterval(m.status, focus' = p - 1)
                       IN IF due
                          THEN /\ pods'[p].members[i].last_polled = now
                               /\ pods'[p].members[i].status = cap[m.tmux_pane]
                          ELSE pods'[p].members[i] = m]_vars

\* Both members were polled at 0, the first one was found working before its
\* Pod had the focus; at 2 it has the focus and has been polled again, and the
\* idle member of the other Pod has not.
C19_Witness ==
    /\ now = 2
    /\ focus = 0
    /\ Len(pods) = 2
    /\ pods[1].members[1].status = "Working"
    /\ pods[1].members[1].last_change = 0
    /\ pods[1].members[1].last_polled = 2
    /\ pods[2].members[1].status = "Idle"
    /\ pods[2].members[1].last_polled = 0

\* --------------------------------------- tui/app.rs, the permission edge
\* Two Pods whose panes ask for a permission or wait, refreshed in full.
NextNotify ==
    \/ Tick
    \/ \E p \in panes : PaneExits(p.id)
    \/ \E cap \in Captures(PermissionClasses) : refresh_pod_states(cap)

SpecNotify == InitPoll /\ [][NextNotify]_vars

InPermission(roster) ==
    {n \in Names(roster) : \E k \in 1..Len(roster) :
        roster[k].name = n /\ roster[k].status = "Permission"}

\* C20: with notifications enabled a refresh notifies for exactly the Pod names
\* that are in Permission after it and were not in the set the previous
\* refresh recorded, and it records the set of the names in Permission.
C20_NotifiedOnPermissionEdge ==
    [][(\E cap \in Captures(PermissionClasses) : refresh_pod_states(cap)) =>
          /\ notified' = {n \in InPermission(pods') : n \notin previous_permission_pods}
          /\ previous_permission_pods' = InPermission(pods')]_vars

\* Pod a stayed in Permission over two refreshes and Pod b entered it at the
\* second: the second refresh notified for b alone.
C20_Witness ==
    /\ previous_permission_pods = {"a", "b"}
    /\ notified = {"b"}
    /\ InPermission(pods) = {"a", "b"}

\* ------------------------------------ tui/app.rs, the drained hook events
MaxBatch == 2

HookEvent(event, session, agent_id, agent_type) ==
    [event |-> event, session |-> session, agent_id |-> agent_id, agent_type |-> agent_type]

\* The lines the hook scripts write: with and without a session, with and
\* without an inferred status.
BatchEvents ==
    {HookEvent("tool_start", None, None, None),
     HookEvent("permission", "a", None, None),
     HookEvent("stop", None, None, None)}

\* The start and the stop of sub-agents, with and without a type.
SubagentEvents ==
    {HookEvent("subagent_start", "b", "x", None),
     HookEvent("subagent_start", None, "y", "Explore"),
     HookEvent("subagent_stop", None, "x", None)}

\* What one poll_events call can drain.
Batches(evs) == UNION {[1..k -> evs] : k \in 1..MaxBatch}
BatchInputs == Batches(BatchEvents)

\* The captures of the two panes: a prompt at rest, or a capture that fails.
BatchCaptures == Captures({"Idle", "Err"})

NextHookBatch ==
    \/ Tick
    \/ \E cap \in BatchCaptures, hook_events \in BatchInputs :
          selective_refresh(cap, hook_events)

SpecHookBatch == InitPoll /\ [][NextHookBatch]_vars

ClaimedStatus(event) ==
    CASE event.event \in {"tool_start", "tool_end", "subagent_start", "subagent_stop"} -> "Working"
      [] event.event = "permission" -> "Permission"
      [] event.event = "error" -> "Error"
      [] OTHER -> None

HasInferredStatus(hook_events) ==
    \E k \in 1..Len(hook_events) : ClaimedStatus(hook_events[k]) # None

\* The last event of the batch that has an inferred status.
LastWithStatus(hook_events) ==
    hook_events[CHOOSE k \in 1..Len(hook_events) :
                   /\ ClaimedStatus(hook_events[k]) # None
                   /\ \A j \in (k + 1)..Len(hook_events) :
                         ClaimedStatus(hook_events[j]) = None]

Targets(pod, event) ==
    event.session = None \/ pod.tmux_session = event.session \/ pod.name = event.session

\* C21: the status of the last event of the batch that has an inferred status
\* is applied to every member of the Pods its session field designates, whose
\* last_polled is cleared so that the same call polls them; the event leaves
\* the members of the other Pods as they were.  The capture fails here, so
\* that nothing but the event sets the status.
C21_LastInferredStatusApplied ==
    [][\A cap \in BatchCaptures, hook_events \in BatchInputs :
          ( /\ selective_refresh(cap, hook_events)
            /\ Len(pods') = Len(pods)
            /\ HasInferredStatus(hook_events) ) =>
              \A p \in 1..Len(pods) : \A i \in 1..Len(pods[p].members) :
                 cap[pods[p].members[i].tmux_pane] = "Err" =>
                    IF Targets(pods[p], LastWithStatus(hook_events))
                    THEN /\ pods'[p].members[i].status
                               = ClaimedStatus(LastWithStatus(hook_events))
                         /\ pods'[p].members[i].last_polled = now
                    ELSE pods'[p].members[i].status = pods[p].members[i].status]_vars

\* ------------------------------------------ tui/app.rs, sessions that return
MaxSessionPanes == 3

\* tmux new-session -s <session>, run outside the application: the session is
\* back under its name with one new pane.
SessionReappears(session, kind) ==
    /\ ~session_exists(session)
    /\ nextPane < MaxSessionPanes
    /\ sessions' = sessions \cup {session}
    /\ panes' = panes \cup {[id |-> nextPane, session |-> session, kind |-> kind]}
    /\ nextPane' = nextPane + 1
    /\ UNCHANGED <<pods, store, focus, last_store_reload, now, commands, notif, detail, others>>

ReviveCaptures == Captures({"Idle", "Err"})

ReviveRefresh ==
    \/ \E cap \in ReviveCaptures : refresh_pod_states(cap)
    \/ \E cap \in ReviveCaptures : selective_refresh(cap, <<>>)

NextRevive ==
    \/ Tick
    \/ \E p \in panes : PaneExits(p.id)
    \/ \E n \in {"a", "b"}, k \in PaneKinds : SessionReappears(n, k)
    \/ ReviveRefresh

SpecRevive == InitPoll /\ [][NextRevive]_vars

DeadPanes(pod) ==
    {pod.members[i].tmux_pane : i \in {j \in 1..Len(pod.members) : pod.members[j].status = "Dead"}}

\* C22: a refresh that finds the session of a Dead Pod alive leaves the Pod
\* with a status other than Dead and without a Dead member, and every member
\* that was Dead has its last_change at the time of the refresh.
C22_DeadPodRevived ==
    [][ReviveRefresh =>
          \A p \in 1..Len(pods) :
             (pods[p].status = "Dead" /\ session_exists(pods[p].tmux_session)) =>
                \A q \in 1..Len(pods') :
                   pods'[q].name = pods[p].name =>
                      /\ pods'[q].status # "Dead"
                      /\ \A i \in 1..Len(pods'[q].members) :
                            /\ pods'[q].members[i].status # "Dead"
                            /\ pods'[q].members[i].tmux_pane \in DeadPanes(pods[p])
                                  => pods'[q].members[i].last_change = now]_vars

\* A Pod whose member was Dead before the clock moved is Idle, its member too,
\* with last_change at the time of the refresh that found the session back.
C22_Witness ==
    /\ now > 0
    /\ session_exists("a")
    /\ \E p \in panes : p.session = "a" /\ p.id >= 2
    /\ pods[1].name = "a"
    /\ pods[1].status = "Idle"
    /\ Len(pods[1].members) = 1
    /\ pods[1].members[1].tmux_pane = 0
    /\ pods[1].members[1].status = "Idle"
    /\ pods[1].members[1].last_change = now

\* ------------------------------------- tui/app.rs, observations that fail
\* Batches with nothing in them, or with the start of one sub-agent.
ObserveBatches == {<<>>, <<HookEvent("subagent_start", None, "y", "Explore")>>}

NextObserve ==
    \/ Tick
    \/ \E p \in panes : PaneExits(p.id)
    \/ \E cap \in BatchCaptures : refresh_pod_states(cap)
    \/ \E cap \in BatchCaptures, hook_events \in ObserveBatches :
          selective_refresh(cap, hook_events)

SpecObserve == InitPoll /\ [][NextObserve]_vars

SameObservation(m1, m2) ==
    /\ m1.status = m2.status
    /\ m1.last_change = m2.last_change
    /\ m1.working_secs = m2.working_secs
    /\ m1.sub_agents = m2.sub_agents

PodIndex(roster, name) == CHOOSE i \in 1..Len(roster) : roster[i].name = name
SessionShared(roster, name) ==
    \E i \in 1..Len(roster) :
        /\ roster[i].name # name
        /\ roster[i].tmux_session = roster[PodIndex(roster, name)].tmux_session
PanesOfPod(pod) == {pod.members[i].tmux_pane : i \in 1..Len(pod.members)}

\* C24: drop_pod of an existing Pod kills only the member panes of the Pod
\* when another Pod uses its session, the session and the other panes
\* staying alive, and the whole session otherwise; the Pod leaves the roster
\* and the roster is saved; an unknown name changes nothing.
C24_DropPod ==
    [][\A n \in PodNames :
          drop_pod(n) =>
             /\ HasPod(pods, n)
             /\ LET pod == pods[PodIndex(pods, n)]
                IN /\ IF SessionShared(pods, n)
                      THEN /\ panes' = {p \in panes : p.id \notin PanesOfPod(pod)}
                           /\ session_exists(pod.tmux_session) =>
                                 pod.tmux_session \in sessions'
                           /\ sessions' \subseteq sessions
                      ELSE /\ pod.tmux_session \notin sessions'
                           /\ panes' = {p \in panes : p.session # pod.tmux_session}
                           /\ sessions' = sessions \ {pod.tmux_session}
                   /\ ~HasPod(pods', n)
                   /\ Len(pods') = Len(pods) - 1
                   /\ \A i \in 1..Len(pods) :
                         pods[i].name # n => \E j \in 1..Len(pods') : pods'[j] = pods[i]
                   /\ store' = save(pods')]_vars

\* --------------------------------------------- tui/handler.rs, Detail view
\* handle_home_keys, h j k l.
HomeMove(direction) == mode = "Home" /\ move_focus(direction)

DetailCaptures == Captures({"Idle", "Permission"})

NextDetail ==
    \/ \E p \in panes : PaneExits(p.id)
    \/ \E d \in {"Right", "Left"} : HomeMove(d)
    \/ HomeEnter
    \/ \E key \in DetailKeys : handle_detail_keys(key)
    \/ \E key \in PermissionKeys : handle_permission_keys(key)
    \/ \E cap \in DetailCaptures : selective_refresh(cap, <<>>)

SpecDetail == InitPoll /\ [][NextDetail]_vars

\* C25: every step that leaves the Detail view ends in the Home view with no
\* stream held, no pane piped, no stream file left, and the window of the
\* pane recorded at entry back at the recorded size.
C25_LeavingDetailCleansUp ==
    [][(mode = "Detail" /\ mode' # "Detail") =>
          /\ mode' = "Home"
          /\ detail_pty_stream' = Never
          /\ \A id \in pipes' : ~PaneAlive(id)
          /\ files' = {}
          /\ (detail_original_window_size # <<>>
                /\ PaneAlive(detail_original_window_size[1])) =>
                get_window_size(windows', SessionOfPane(detail_original_window_size[1]))
                   = detail_original_window_size[2]]_vars

\* ------------------------------------------ pod/detector.rs, member status
\* The output of capture-pane a line at a time, each line by what the
\* patterns find in it: nothing but blanks, a permission prompt, an error
\* message, an end-of-session message, a bare prompt, the word "allow" at its
\* end, the word "once" at its start, or none of these.
LineKinds == {"blank", "text", "permission", "error", "done", "prompt", "allow", "once"}

TailLines == 15
MaxFill == 15
MaxEnd == 2

\* str::trim: the blank lines at both ends go.
RECURSIVE TrimStart(_)
TrimStart(lines) ==
    IF Len(lines) # 0 /\ lines[1] = "blank" THEN TrimStart(Tail(lines)) ELSE lines

RECURSIVE TrimEnd(_)
TrimEnd(lines) ==
    IF Len(lines) # 0 /\ lines[Len(lines)] = "blank"
    THEN TrimEnd(SubSeq(lines, 1, Len(lines) - 1))
    ELSE lines

trim(lines) == TrimEnd(TrimStart(lines))

\* PERMISSION_PATTERNS on the joined text: a line that matches, or
\* allow\s+(once|always) across line ends.
MatchesPermission(text) ==
    \/ \E i \in 1..Len(text) : text[i] = "permission"
    \/ \E i \in 1..Len(text), j \in 1..Len(text) :
          /\ i < j
          /\ text[i] = "allow"
          /\ text[j] = "once"
          /\ \A k \in (i + 1)..(j - 1) : text[k] = "blank"

MatchesError(text) == \E i \in 1..Len(text) : text[i] = "error"
MatchesDone(text) == \E i \in 1..Len(text) : text[i] = "done"
MatchesIdle(line) == line = "prompt"

\* The rules of detect_member_status over the lines it is given as the tail.
StatusOfTail(tail) ==
    IF MatchesPermission(tail) THEN "Permission"
    ELSE IF MatchesError(tail) THEN "Error"
    ELSE IF MatchesDone(tail) THEN "Done"
    ELSE IF Len(tail) # 0 /\ MatchesIdle(tail[Len(tail)]) THEN "Idle"
    ELSE "Working"

\* The detector looking at every line of the output.
status_of_all_lines(output) ==
    IF Len(trim(output)) = 0 THEN "Done" ELSE StatusOfTail(trim(output))

detect_member_status(output) ==
    LET trimmed == trim(output)
    IN IF Len(trimmed) = 0 THEN "Done"
       ELSE LET lines == trimmed
                tail_start == IF Len(lines) > TailLines THEN Len(lines) - TailLines ELSE 0
                tail == SubSeq(lines, tail_start + 1, Len(lines))
            IN StatusOfTail(tail)

RECURSIVE Fill(_, _)
Fill(kind, n) == IF n = 0 THEN <<>> ELSE <<kind>> \o Fill(kind, n - 1)

\* A first line, lines that say nothing, and the last lines.
OutputInputs ==
    {<<first>> \o Fill(kind, n) \o end :
        first \in LineKinds, kind \in {"text", "blank"}, n \in 0..MaxFill,
        end \in UNION {[1..k -> LineKinds] : k \in 0..MaxEnd}}

InitDetect ==
    /\ InitApp
    /\ arg_parent = None
    /\ arg_discovered = <<>>
    /\ ret_children = <<>>
    /\ InitHooksIdle
    /\ InitStoreIdle
    /\ arg_output \in OutputInputs
    /\ arg_statuses = <<>>
    /\ ret_status = None

\* let status = detect_member_status(&output)
DetectCall ==
    /\ ret_status = None
    /\ ret_status' = detect_member_status(arg_output)
    /\ UNCHANGED <<arg_output, arg_statuses, main, callVars, hookVars, storeVars, streamVars>>

SpecDetect == InitDetect /\ [][DetectCall]_vars

\* The output without the blank lines around it, and its last 15 lines.
Trimmed(output) ==
    LET S == {i \in 1..Len(output) : output[i] # "blank"}
    IN IF S = {} THEN <<>>
       ELSE LET lo == CHOOSE i \in S : \A j \in S : i <= j
                hi == CHOOSE i \in S : \A j \in S : i >= j
            IN [k \in 1..(hi - lo + 1) |-> output[lo + k - 1]]

LastLines(lines) ==
    [k \in 1..(IF Len(lines) < 15 THEN Len(lines) ELSE 15) |->
        lines[Len(lines) - (IF Len(lines) < 15 THEN Len(lines) ELSE 15) + k]]

HasLine(lines, kind) == \E i \in 1..Len(lines) : lines[i] = kind

\* C26: the status is Done for an empty output; otherwise it is decided by
\* the last 15 lines of the trimmed output alone, the first rule that applies
\* winning: a permission line gives Permission, else an error line Error,
\* else a done line Done, else a prompt on the last line Idle, else Working.
C26_DetectionOrder ==
    ret_status # None =>
       LET t == LastLines(Trimmed(arg_output))
       IN /\ Trimmed(arg_output) = <<>> => ret_status = "Done"
          /\ HasLine(t, "permission") => ret_status = "Permission"
          /\ (HasLine(t, "error") /\ ret_status # "Permission") => ret_status = "Error"
          /\ (HasLine(t, "done") /\ ret_status \notin {"Permission", "Error"}) =>
                ret_status = "Done"
          /\ (t # <<>> /\ t[Len(t)] = "prompt"
                /\ ret_status \notin {"Permission", "Error", "Done"}) =>
                ret_status = "Idle"
          /\ ret_status = "Error" => HasLine(t, "error")
          /\ ret_status = "Done" => (t = <<>> \/ HasLine(t, "done"))
          /\ ret_status = "Idle" => t[Len(t)] = "prompt"
          /\ ret_status = "Permission" =>
                (HasLine(t, "permission") \/ (HasLine(t, "allow") /\ HasLine(t, "once")))
          /\ ret_status = detect_member_status(t)

\* An error line and a permission line at the end of an output whose first
\* line, a done line, is older than the tail.
C26_Witness ==
    /\ ret_status = "Permission"
    /\ Len(arg_output) = 18
    /\ arg_output[1] = "done"
    /\ arg_output[17] = "error"
    /\ arg_output[18] = "permission"

\* ------------------------------------------------ pod/detector.rs, roll-up
MaxStatuses == 3

\* Iterator::max_by_key: the last of the elements with the greatest key.
RECURSIVE max_by_key(_)
max_by_key(statuses) ==
    IF Len(statuses) = 1 THEN statuses[1]
    ELSE LET best == max_by_key(SubSeq(statuses, 1, Len(statuses) - 1))
             last == statuses[Len(statuses)]
         IN IF Priority(last) >= Priority(best) THEN last ELSE best

\* The roll-up that answers with the first status it is given.
first_status(statuses) == IF Len(statuses) = 0 THEN "Idle" ELSE statuses[1]

\* detector::rollup_status
detector_rollup_status(statuses) ==
    IF Len(statuses) = 0 THEN "Idle" ELSE max_by_key(statuses)

StatusValues == {"Permission", "Error", "Working", "Idle", "Done", "Dead"}
StatusInputs == UNION {[1..k -> StatusValues] : k \in 0..MaxStatuses}

InitRollup ==
    /\ InitApp
    /\ arg_parent = None
    /\ arg_discovered = <<>>
    /\ ret_children = <<>>
    /\ InitHooksIdle
    /\ InitStoreIdle
    /\ arg_output = <<>>
    /\ arg_statuses \in StatusInputs
    /\ ret_status = None

\* let status = rollup_status(&statuses)
RollupCall ==
    /\ ret_status = None
    /\ ret_status' = detector_rollup_status(arg_statuses)
    /\ UNCHANGED <<arg_output, arg_statuses, main, callVars, hookVars, storeVars, streamVars>>

SpecRollup == InitRollup /\ [][RollupCall]_vars

\* The order of the statuses, the lowest first.
StatusOrder == <<"Dead", "Done", "Idle", "Working", "Error", "Permission">>
Rank(status) == CHOOSE i \in 1..Len(StatusOrder) : StatusOrder[i] = status
Reversed(statuses) ==
    [i \in 1..Len(statuses) |-> statuses[Len(statuses) + 1 - i]]

\* C27: rollup_status answers Idle for no status, and otherwise a status of
\* the sequence that none of the sequence exceeds in the order Permission >
\* Error > Working > Idle > Done > Dead, whatever the order of the sequence.
C27_RollupIsHighest ==
    ret_status # None =>
       IF arg_statuses = <<>>
       THEN ret_status = "Idle"
       ELSE /\ \E i \in 1..Len(arg_statuses) : arg_statuses[i] = ret_status
            /\ \A i \in 1..Len(arg_statuses) : Rank(arg_statuses[i]) <= Rank(ret_status)
            /\ detector_rollup_status(Reversed(arg_statuses)) = ret_status

\* The highest status stands between a lower one and the lowest.
C27_Witness ==
    /\ arg_statuses = <<"Error", "Permission", "Dead">>
    /\ ret_status = "Permission"

\* ------------------------------------------- hooks.rs, lines in two writes
\* The last line of the log has no newline yet.
Pending(file) ==
    Len(file.lines) # 0 /\ file.lines[Len(file.lines)].part = "head"

\* A hook script has written the first k bytes of its line.
HookWritesHead(ev, k) ==
    /\ hooks_file.appended < MaxLines
    /\ ~Pending(hooks_file)
    /\ hooks_file' = [hooks_file EXCEPT
                        !.exists = TRUE,
                        !.lines = Append(@, [timestamp |-> hooks_file.appended + 1,
                                             len |-> k, event |-> ev, part |-> "head"]),
                        !.appended = @ + 1]
    /\ UNCHANGED <<last_position, events, delivered, main, detectorVars, streamVars, callVars, storeVars>>

\* It writes the remaining k bytes, the newline the last of them.
HookWritesRest(k) ==
    /\ Pending(hooks_file)
    /\ hooks_file' = [hooks_file EXCEPT
                        !.lines = Append(@, [timestamp |-> hooks_file.appended,
                                             len |-> k, event |-> "garbage", part |-> "rest"])]
    /\ UNCHANGED <<last_position, events, delivered, main, detectorVars, streamVars, callVars, storeVars>>

InitHookWrites == InitHooks /\ hooks_file.lines = <<>>

NextHookWrites ==
    \/ PollEvents
    \/ \E ev \in LineEvents, ln \in LineLens : ~Pending(hooks_file) /\ HookAppends(ev, ln)
    \/ \E ev \in LineEvents, k \in 1..2 : HookWritesHead(ev, k)
    \/ \E k \in 1..2 : HookWritesRest(k)

SpecHookWrites == InitHookWrites /\ [][NextHookWrites]_vars

\* The records of the log whose last byte is written, and the length of the
\* lines that are complete.
CompleteRecords(lines) ==
    {lines[i].timestamp : i \in {j \in 1..Len(lines) :
        \/ lines[j].part = "whole" /\ lines[j].event # "garbage"
        \/ lines[j].part = "head" /\ lines[j].event # "garbage" /\ j < Len(lines)}}

CompleteLen(lines) ==
    IF Pending([lines |-> lines])
    THEN FileLen(SubSeq(lines, 1, Len(lines) - 1))
    ELSE FileLen(lines)

\* C28: a poll consumes complete lines only and leaves the cursor behind the
\* last of them; it returns no record a poll has returned before, and behind
\* a poll that read to the end of a log of complete lines every record
\* written since startup has been returned.
C28_EveryRecordExactlyOnce ==
    [][PollEvents =>
         /\ last_position' = CompleteLen(hooks_file.lines)
         /\ Timestamps(events') \cap delivered = {}
         /\ ~Pending(hooks_file) => CompleteRecords(hooks_file.lines) \subseteq delivered']_vars

\* ------------------------------------ tui/app.rs, hook status and the poll
\* C29: when selective_refresh drains a batch whose last event has an
\* inferred status, every member of every live Pod the event matches has
\* that status when the call returns.
C29_HookStatusSurvivesPoll ==
    [][\A cap \in BatchCaptures, hook_events \in BatchInputs :
          ( /\ selective_refresh(cap, hook_events)
            /\ Len(pods') = Len(pods)
            /\ ClaimedStatus(hook_events[Len(hook_events)]) # None ) =>
               \A p \in 1..Len(pods) :
                  ( /\ Targets(pods[p], hook_events[Len(hook_events)])
                    /\ session_exists(pods[p].tmux_session)
                    /\ pods'[p].name = pods[p].name ) =>
                       \A i \in 1..Len(pods'[p].members) :
                          pods'[p].members[i].status =
                             ClaimedStatus(hook_events[Len(hook_events)])]_vars

\* -------------------------------------------- tui/app.rs, sub-agent events
SubagentBatches == Batches(SubagentEvents)

\* The capture of the first pane fails, the second pane may show its prompt.
SubagentCaptures == {cap \in BatchCaptures : cap[0] = "Err"}

NextSubagents ==
    \/ Tick
    \/ \E cap \in SubagentCaptures, hook_events \in SubagentBatches :
          selective_refresh(cap, hook_events)

SpecSubagents == InitPoll /\ [][NextSubagents]_vars

Keys(records) == {records[k].description : k \in 1..Len(records)}
KeyOf(event) == IF event.agent_id = None THEN "" ELSE event.agent_id

\* The records of a member behind one event, as the events are described.
AfterEvent(records, event) ==
    IF event.event = "subagent_start"
    THEN IF KeyOf(event) \in Keys(records)
         THEN records
         ELSE records \o <<[agent_type |-> IF event.agent_type = None
                                           THEN "Task" ELSE event.agent_type,
                            description |-> KeyOf(event)]>>
    ELSE LET kept == {k \in 1..Len(records) : records[k].description # KeyOf(event)}
             nth(n) == CHOOSE k \in kept : Cardinality({j \in kept : j < k}) = n - 1
         IN [n \in 1..Cardinality(kept) |-> records[nth(n)]]

RECURSIVE AfterEvents(_, _, _)
AfterEvents(records, pod, hook_events) ==
    IF Len(hook_events) = 0 THEN records
    ELSE AfterEvents(IF Targets(pod, Head(hook_events))
                     THEN AfterEvent(records, Head(hook_events))
                     ELSE records,
                     pod, Tail(hook_events))

PeriodicRefresh ==
    \E cap \in Captures(PermissionClasses) : selective_refresh(cap, <<>>)

\* The loop: the clock, the refresh every 500 ms, and the full refresh at
\* the start and behind a blocking attach.
NextRunApp ==
    \/ Tick
    \/ PeriodicRefresh
    \/ \E cap \in Captures(PermissionClasses) : refresh_pod_states(cap)

SpecRunApp == InitPoll /\ [][NextRunApp]_vars

\* C31: a periodic refresh that finds a Pod in Permission that was not in
\* Permission before sends the notification for that Pod.
C31_PeriodicRefreshNotifies ==
    [][PeriodicRefresh =>
          \A p \in 1..Len(pods) : \A q \in 1..Len(pods') :
             ( /\ pods'[q].name = pods[p].name
               /\ pods[p].status # "Permission"
               /\ pods'[q].status = "Permission"
               /\ pods[p].name \notin notified ) =>
                  pods[p].name \in notified']_vars

\* ------------------------------------- store/mod.rs, load_and_reconcile
\* Reconciliation that trusts the session and does not look at the panes.
reconcile_by_session(loaded) ==
    SelectSeq(loaded, LAMBDA pod : session_exists(pod.tmux_session))

\* PodStore::load_and_reconcile behind a successful load.
load_and_reconcile(loaded) ==
    LET pane_ids == {p.id : p \in panes}
        retained == SelectSeq(loaded, LAMBDA pod : session_exists(pod.tmux_session))
    IN [k \in 1..Len(retained) |->
          LET pod == retained[k]
              before_count == Len(pod.members)
              kept == SelectSeq(pod.members, LAMBDA m : m.tmux_pane \in pane_ids)
          IN IF Len(kept) # before_count
             THEN rollup_status([pod EXCEPT !.members = kept])
             ELSE pod]

StoredMember(pane, status) ==
    [role |-> "claude", status |-> status, tmux_pane |-> pane, last_change |-> 0,
     last_polled |-> Never, working_secs |-> 0, sub_agents |-> <<>>,
     last_output |-> "plain"]

\* Pod a with two members and a status that may be out of date, Pod b with one.
StoredA ==
    {[StorePod("a", Never, 0) EXCEPT
         !.members = <<StoredMember(0, s0), StoredMember(1, s1)>>, !.status = st] :
       s0 \in {"Idle", "Permission"}, s1 \in {"Idle", "Permission"},
       st \in {"Idle", "Working"}}
StoredB == [StorePod("b", Never, 0) EXCEPT !.members = <<StoredMember(2, "Idle")>>]
StoredRosters ==
    {<<>>} \cup {<<x>> : x \in StoredA} \cup {<<x, StoredB>> : x \in StoredA}
           \cup {<<StoredB, x>> : x \in StoredA}

\* The panes the server may still have: the members' and one more in session a.
ServerPanes ==
    {[id |-> 0, session |-> "a", kind |-> "claude"],
     [id |-> 1, session |-> "a", kind |-> "claude"],
     [id |-> 2, session |-> "b", kind |-> "claude"],
     [id |-> 3, session |-> "a", kind |-> "shell"]}

InitReconcile ==
    /\ InitOthers
    /\ now = 0
    /\ last_store_reload = 0
    /\ focus = Never
    /\ panes \in SUBSET ServerPanes
    /\ sessions = {p.session : p \in panes}
    /\ nextPane = 4
    /\ commands = 0
    /\ pods = <<>>
    /\ store \in StoredRosters
    /\ previous_permission_pods = {}
    /\ notified = {}
    /\ current_permission = None

\* App::new: the roster is what load_and_reconcile returns and has saved.
ReconcileCall ==
    /\ commands = 0
    /\ commands' = 1
    /\ pods' = load_and_reconcile(store)
    /\ store' = save(pods')
    /\ UNCHANGED <<focus, last_store_reload, now, sessions, panes, nextPane, notif,
                   detail, others>>

SpecReconcile == InitReconcile /\ [][ReconcileCall]_vars

\* The n-th of the indices in S, and the elements of a sequence at S.
NthOf(S, n) == CHOOSE k \in S : Cardinality({j \in S : j < k}) = n - 1
Restrict(seq, S) == [n \in 1..Cardinality(S) |-> seq[NthOf(S, n)]]
HighestStatus(ms) ==
    IF Len(ms) = 0 THEN "Idle"
    ELSE ms[CHOOSE i \in 1..Len(ms) :
               \A j \in 1..Len(ms) : Rank(ms[j].status) <= Rank(ms[i].status)].status

\* C32: load_and_reconcile returns the loaded Pods whose session exists, in
\* stored order, each with the members whose pane is alive; the status of a
\* Pod is rolled up anew exactly when its members changed; what it saved is
\* what it returned.
C32_ReconcileKeepsLive ==
    [][ReconcileCall =>
         LET live == {i \in 1..Len(store) : store[i].tmux_session \in sessions}
             ids == {p.id : p \in panes}
         IN /\ Len(pods') = Cardinality(live)
            /\ \A n \in 1..Cardinality(live) :
                  LET old == store[NthOf(live, n)]
                      alive == {i \in 1..Len(old.members) : old.members[i].tmux_pane \in ids}
                  IN /\ pods'[n].name = old.name
                     /\ pods'[n].members = Restrict(old.members, alive)
                     /\ pods'[n].status =
                           IF Cardinality(alive) # Len(old.members)
                           THEN HighestStatus(pods'[n].members)
                           ELSE old.status
            /\ store' = pods']_vars

\* Pod b went with its session, Pod a lost the member that asked for a
\* permission and was rolled up anew.
C32_Witness ==
    /\ commands = 1
    /\ nextPane = 4
    /\ sessions = {"a"}
    /\ {p.id : p \in panes} = {0, 3}
    /\ Len(pods) = 1
    /\ pods[1].name = "a"
    /\ Len(pods[1].members) = 1
    /\ pods[1].members[1].tmux_pane = 0
    /\ pods[1].status = "Idle"
    /\ store = pods

\* ------------------------------------------- tui/app.rs, DetailPtyStream
BufSize == 2
MaxStream == 4
Bytes == {0, 1}

\* A read that does not move the cursor of the handle.
read_at_start(file, pos) ==
    SubSeq(file, 1, IF Len(file) < BufSize THEN Len(file) ELSE BufSize)

\* self.file.read(&mut buf): what a full read at the cursor can return.
read(file, pos) ==
    SubSeq(file, pos + 1, IF Len(file) < pos + BufSize THEN Len(file) ELSE pos + BufSize)

\* cat >> file, behind tmux pipe-pane -O
PipeAppends(b) ==
    /\ Len(stream_file) < MaxStream
    /\ stream_file' = Append(stream_file, b)
    /\ UNCHANGED <<stream_reader, parser, main, callVars, hookVars, storeVars, detectorVars>>

\* drain is entered: total = 0. fed_before remembers how much the parser had
\* processed, which the code does not keep.
DrainBegin ==
    /\ stream_reader.pc = "idle"
    /\ stream_reader' = [stream_reader EXCEPT !.pc = "reading", !.total = 0,
                                              !.fed_before = Len(parser)]
    /\ UNCHANGED <<stream_file, parser, main, callVars, hookVars, storeVars, detectorVars>>

\* One turn of the loop: Ok(0) => break, Ok(n) => process and count. A read
\* may return less than what is there.
DrainRead ==
    /\ stream_reader.pc = "reading"
    /\ LET avail == read(stream_file, stream_reader.pos)
       IN IF Len(avail) = 0
          THEN /\ stream_reader' = [stream_reader EXCEPT !.pc = "idle", !.ret = stream_reader.total]
               /\ parser' = parser
          ELSE \E n \in 1..Len(avail) :
                 /\ parser' = parser \o SubSeq(avail, 1, n)
                 /\ stream_reader' = [stream_reader EXCEPT !.pos = @ + n, !.total = @ + n]
    /\ UNCHANGED <<stream_file, main, callVars, hookVars, storeVars, detectorVars>>

\* Err(_) => break
DrainFails ==
    /\ stream_reader.pc = "reading"
    /\ stream_reader' = [stream_reader EXCEPT !.pc = "idle", !.ret = stream_reader.total]
    /\ UNCHANGED <<stream_file, parser, main, callVars, hookVars, storeVars, detectorVars>>

InitStream == InitApp /\ InitOthers
NextStream == (\E b \in Bytes : PipeAppends(b)) \/ DrainBegin \/ DrainRead \/ DrainFails
SpecStream == InitStream /\ [][NextStream]_vars

DrainReturns == stream_reader.pc = "reading" /\ stream_reader'.pc = "idle"
ReadsEndOfFile == DrainRead /\ DrainReturns

\* C33: what the drains have fed to the parser is at every moment the bytes of
\* the file up to the cursor, in file order and each once; a read that finds
\* the end of the file leaves the parser with the whole file; a drain returns
\* the number of bytes it fed, and 0 with the parser unchanged when it started
\* at the end of the file and nothing was appended.
C33_DrainFeedsEachByteOnce ==
    /\ [](/\ stream_reader.pos = Len(parser)
          /\ Len(parser) <= Len(stream_file)
          /\ parser = SubSeq(stream_file, 1, Len(parser)))
    /\ [][/\ ReadsEndOfFile => parser' = stream_file
          /\ DrainReturns =>
               /\ stream_reader'.ret = Len(parser') - stream_reader.fed_before
               /\ parser' = parser
               /\ stream_reader.fed_before = Len(stream_file) =>
                    stream_reader'.ret = 0
               /\ stream_reader'.ret = 0 =>
                    Len(parser') = stream_reader.fed_before]_vars

\* Two drains have fed the four bytes, the second one the two appended after
\* the first.
C33_Witness ==
    /\ stream_reader.pc = "idle"
    /\ stream_reader.ret = 2
    /\ Len(parser) = MaxStream
    /\ parser = stream_file


\* ------------------------------ tui/app.rs, the dynamic reload, over time
MaxStaleTime == 4

TickStale ==
    /\ now < MaxStaleTime
    /\ now' = now + 1
    /\ UNCHANGED <<pods, store, focus, last_store_reload, sessions, panes, nextPane,
                   commands, notif, detail, others>>

\* A pane exits while the clock can still run ReloadInterval further.
PaneExitsInTime(id) == now + ReloadInterval <= MaxStaleTime /\ PaneExits(id)

PeriodicReload == \E cap \in Captures(WorkClasses) : selective_refresh(cap, <<>>)

NextStale ==
    \/ TickStale
    \/ \E n \in CreateNames, g \in GroupArgs : create_pod(n, g)
    \/ \E s \in sessions, k \in PaneKinds : PaneAppears(s, k)
    \/ \E p \in panes : PaneExitsInTime(p.id)
    \/ PeriodicReload

ReloadDue == now - last_store_reload >= ReloadInterval

\* The clock advances, and the event loop of run_app calls selective_refresh
\* every 500 ms: a reload that stays due is made. (Weak fairness of the
\* refresh, written with the state in which its reload branch is enabled.)
SpecStale ==
    /\ Init /\ [][NextStale]_vars
    /\ WF_vars(TickStale)
    /\ ([]<>(~ReloadDue) \/ []<><<PeriodicReload>>_vars)

\* A member whose pane is gone while the session of its Pod is alive.
StaleMember(roster) ==
    \E i \in 1..Len(roster) :
        /\ session_exists(roster[i].tmux_session)
        /\ \E k \in 1..Len(roster[i].members) :
             ~PaneAlive(roster[i].members[k].tmux_pane)

\* The Pods discovery made, by their names.
IsChildPod(pod) == pod.name \notin CreateNames

Reloads == last_store_reload' # last_store_reload

\* C34: a member whose pane has gone while the session lives is eventually
\* removed under repeated selective_refresh; the refresh that runs
\* ReloadInterval or more after the last reload leaves no such member, and it
\* leaves no child Pod without members in the roster.
C34_StaleMemberRemoved ==
    /\ (StaleMember(pods) ~> ~StaleMember(pods))
    /\ [][Reloads =>
            /\ ~StaleMember(pods')
            /\ \A q \in 1..Len(pods') :
                 IsChildPod(pods'[q]) => Len(pods'[q].members) # 0]_vars

\* The half of C34 about the member alone.
StaleMemberGoes ==
    /\ (StaleMember(pods) ~> ~StaleMember(pods))
    /\ [][Reloads => ~StaleMember(pods')]_vars


\* C35: no pane id is a member of more than one Pod of the roster (nor twice
\* a member of one), whatever create_pod, adopt_session, the discovery and the
\* store reloads did.
C35_PaneInOnePod ==
    \A i \in 1..Len(pods) : \A j \in 1..Len(pods) :
        \A k \in 1..Len(pods[i].members) : \A l \in 1..Len(pods[j].members) :
            pods[i].members[k].tmux_pane = pods[j].members[l].tmux_pane
                => (i = j /\ k = l)


\* --------------------------- two instances that only create, one store
\* The Pod each instance creates.
OwnPod(i) == IF i = 1 THEN StorePod("a", 1, 1) ELSE StorePod("b", Never, 0)

\* Both instances run, on a store that has no file yet or on one with a Pod
\* that both have loaded.
InitShared ==
    /\ InitApp
    /\ InitDetectorIdle
    /\ arg_parent = None
    /\ arg_discovered = <<>>
    /\ ret_children = <<>>
    /\ InitHooksIdle
    /\ \/ /\ disk = [target |-> NoInode, tmp |-> NoInode]
          /\ inodes = <<>>
          /\ inst = [i \in Instances |-> [IdleInstance EXCEPT !.running = TRUE]]
          /\ saved = {}
       \/ LET base == <<StorePod("c", Never, 0)>>
          IN /\ disk = [target |-> 1, tmp |-> NoInode]
             /\ inodes = <<to_string_pretty(base)>>
             /\ inst = [i \in Instances |->
                          [IdleInstance EXCEPT !.running = TRUE, !.roster = base]]
             /\ saved = {to_string_pretty(base)}
    /\ load_result = [ok |-> TRUE, pods |-> <<>>, content |-> <<>>]
    /\ saves = 0

\* create_pod in instance i: self.state.pods.push(pod); self.save()?
\* A save begins when no other is between its system calls: the operations
\* interleave, their system calls do not.
CreateOwn(i) ==
    /\ inst[i].running
    /\ \A j \in Instances : inst[j].pc = "idle"
    /\ ~HasPod(inst[i].roster, OwnPod(i).name)
    /\ saves < MaxSaves
    /\ saves' = saves + 1
    /\ LET roster == Append(inst[i].roster, OwnPod(i))
       IN /\ inst' = [inst EXCEPT ![i] = BeginSave(i, roster, @)]
          /\ saved' = saved \cup {to_string_pretty(roster)}
    /\ UNCHANGED <<disk, inodes, load_result, main, detectorVars, streamVars, callVars, hookVars>>

NextShared ==
    \E i \in Instances :
        \/ CreateOwn(i)
        \/ SaveOpen(i)
        \/ SaveWrite(i)
        \/ SaveRename(i)
        \/ StoreReload(i)

SpecShared == InitShared /\ [][NextShared]_vars

\* C36: no instance drops or forgets; the Pod an instance created stays in
\* the roster of that instance, and once the store file has it, the store
\* file keeps it, whatever the other instance saves and reloads.
C36_CreatedPodStays ==
    [][\A i \in Instances :
          LET name == OwnPod(i).name
          IN /\ name \in Names(inst[i].roster) => name \in Names(inst'[i].roster)
             /\ ( /\ FileExists(disk)
                  /\ name \in Names(load(disk, inodes).pods) )
                    => name \in Names(load(disk', inodes').pods)]_vars


\* -------------------------- tui/app.rs, create_pod and adopt_session, Err
\* The calls of create_pod that can fail behind the name check, in order.
CreateFailures == {"new_session", "list_panes", "save", "start_claude_in_session"}
AdoptFailures == {"list_panes", "save"}

\* create_pod returning the error of the call named failed: what `?` leaves
\* behind of the calls before it.
create_pod_err(name, group, failed) ==
    /\ Command
    /\ ~HasPod(pods, name)
    /\ IF failed = "new_session"
       THEN UNCHANGED <<sessions, panes, nextPane, pods, store>>
       ELSE /\ ~session_exists(name)
            /\ nextPane < MaxPanes
            /\ LET pane_id == nextPane
                   member == NewMember("claude", "Idle", pane_id)
                   pod == [name |-> name, pod_type |-> "Solo", members |-> <<member>>,
                           status |-> "Idle", tmux_session |-> name,
                           project |-> CurrentProject,
                           group |-> IF group # None THEN group ELSE CurrentProject,
                           total_working_secs |-> 0]
               IN /\ sessions' = sessions \cup {name}
                  /\ panes' = panes \cup {[id |-> pane_id, session |-> name,
                                           kind |-> "claude"]}
                  /\ nextPane' = nextPane + 1
                  /\ pods' = IF failed = "list_panes" THEN pods ELSE Append(pods, pod)
                  /\ Bounded(pods')
                  /\ store' = IF failed = "start_claude_in_session"
                              THEN save(pods') ELSE store
    /\ UNCHANGED <<focus, last_store_reload, now, notif, detail, others>>

\* adopt_session returning the error of list_panes or of save.
adopt_session_err(session, name, group, failed) ==
    /\ Command
    /\ session_exists(session)
    /\ LET pod_name == IF name # None THEN name ELSE session
           pl == list_panes(session)
           members == [i \in 1..Len(pl) |->
                         NewMember(IF i = 1 THEN "lead"
                                   ELSE "member-" \o ToString(i - 1),
                                   "Idle", pl[i])]
           pod == [name |-> pod_name,
                   pod_type |-> IF Len(members) > 1 THEN "Team" ELSE "Solo",
                   members |-> members, status |-> "Idle",
                   tmux_session |-> session, project |-> None,
                   group |-> group, total_working_secs |-> 0]
       IN /\ ~HasPod(pods, pod_name)
          /\ pods' = IF failed = "list_panes" THEN pods ELSE Append(pods, pod)
          /\ Bounded(pods')
    /\ UNCHANGED <<store, focus, last_store_reload, now, sessions, panes, nextPane,
                   notif, detail, others>>

\* The tmux server and commands that all return an error.
NextErrors ==
    \/ Tmux
    \/ \E n \in CreateNames, g \in GroupArgs, f \in CreateFailures :
          create_pod_err(n, g, f)
    \/ \E s \in sessions, n \in AdoptNames, g \in GroupArgs, f \in AdoptFailures :
          adopt_session_err(s, n, g, f)

SpecErrors == Init /\ [][NextErrors]_vars

\* C37: when create_pod or adopt_session returns an error, the roster is the
\* one before the call, the store has no Pod of that name, and the sessions
\* are those before the call.
C37_ErrorLeavesNothing ==
    [][/\ \A n \in CreateNames, g \in GroupArgs, f \in CreateFailures :
            create_pod_err(n, g, f) =>
                /\ pods' = pods
                /\ ~HasPod(store', n)
                /\ sessions' = sessions
       /\ \A s \in sessions, n \in AdoptNames, g \in GroupArgs, f \in AdoptFailures :
            adopt_session_err(s, n, g, f) =>
                /\ pods' = pods
                /\ ~HasPod(store', IF n # None THEN n ELSE s)
                /\ sessions' = sessions]_vars


\* ------------------------------------- the focus, keys and refreshes
\* The commands, the tmux server, the focus keys and the periodic refresh.
NextFocus ==
    \/ \E n \in CreateNames : create_pod(n, None)
    \/ \E s \in sessions, k \in PaneKinds : PaneAppears(s, k)
    \/ \E p \in panes : PaneExits(p.id)
    \/ \E direction \in Directions : move_focus(direction)
    \/ \E n \in PodNames : drop_pod(n)
    \/ \E n \in PodNames : forget_pod(n)
    \/ PeriodicReload

SpecFocus == InitRoster /\ [][NextFocus]_vars

\* C38: focus is None or an index below the number of Pods of the roster,
\* after every key action and every refresh.
C38_FocusInRange == focus = Never \/ focus < Len(pods)


\* ------------------------------- the Detail view of a Pod of two members
\* adopt_session of a session of two panes has made a Team Pod, create_pod a
\* second Pod; the next refresh is a reload.
InitTeam ==
    /\ InitOthers
    /\ focus = 0
    /\ last_store_reload = 0
    /\ now = ReloadInterval
    /\ sessions = {"a", "b"}
    /\ panes = {[id |-> 0, session |-> "a", kind |-> "claude"],
                [id |-> 1, session |-> "a", kind |-> "claude"],
                [id |-> 2, session |-> "b", kind |-> "claude"]}
    /\ nextPane = 3
    /\ commands = MaxCommands
    /\ pods = <<[name |-> "a", pod_type |-> "Team",
                 members |-> <<NewMember("lead", "Idle", 0),
                               NewMember("member-1", "Idle", 1)>>,
                 status |-> "Idle", tmux_session |-> "a", project |-> None,
                 group |-> None, total_working_secs |-> 0],
                [StorePod("b", Never, 0) EXCEPT !.members[1].tmux_pane = 2]>>
    /\ store = save(pods)
    /\ previous_permission_pods = {}
    /\ notified = {}
    /\ current_permission = None

SpecTeam == InitTeam /\ [][NextDetail]_vars

\* C39: in the Detail view with a stream held, the pane the stream pipes is
\* the pane of the selected member of the focused Pod.
C39_StreamFollowsSelection ==
    (mode = "Detail" /\ detail_pty_stream # Never) =>
        LET selected == IF selected_member = Never THEN 0 ELSE selected_member
        IN /\ focus # Never
           /\ focus < Len(pods)
           /\ selected < Len(pods[focus + 1].members)
           /\ pods[focus + 1].members[selected + 1].tmux_pane = detail_pty_stream


\* ------------------------------- tui/app.rs, current_permission
\* A pane that rests, shows a built-in permission prompt, or shows a prompt
\* that only a permission pattern of the configuration matches.
PromptClasses == {"Idle", "Permission", ConfigPermission}
PermissionHook == [event |-> "permission", session |-> None]

NextPermission ==
    \/ \E cap \in Captures(PromptClasses) : refresh_pod_states(cap)
    \/ \E cap \in Captures(PromptClasses \cup {"Err"}), ev \in {<<>>, <<PermissionHook>>} :
          selective_refresh(cap, ev)

SpecPermission == InitPoll /\ [][NextPermission]_vars

SomeMemberInPermission(roster) ==
    \E i \in 1..Len(roster) : \E k \in 1..Len(roster[i].members) :
        roster[i].members[k].status = "Permission"

\* C40: when refresh_pod_states returns, current_permission is set if and
\* only if a member of the roster has the status Permission.
C40_PermissionShown ==
    [][(\E cap \in Captures(PromptClasses) : refresh_pod_states(cap)) =>
          ((current_permission' # None) <=> SomeMemberInPermission(pods'))]_vars

====
